---- MODULE Spec2Model ----
(***************************************************************************)
(* AutoTyper: the typing engine (src/engine), the persistent hotkey        *)
(* listener (src/hotkey) and the controller callbacks that connect them    *)
(* (src/app_controller.py).                                                *)
(*                                                                         *)
(* Threads: worker threads (one per activation, running TypingEngine.run), *)
(* the key-event delivery thread (HotkeyListener._on_press/_on_release),   *)
(* the display thread (Tk main loop; API calls and the after() queue).     *)
(***************************************************************************)
EXTENDS Integers, Sequences, FiniteSets, TLC

VARIABLES
    typing_lock,      \* TypingEngine._typing_lock: 0 = free, w = held by worker w
    cancel_event,     \* TypingEngine._cancel_event
    delay_model,      \* TypingEngine._delay_model
    typo_generator,   \* TypingEngine._typo_generator
    threads,          \* worker threads started by AppController._on_activate
    status_log,       \* history: the last two statuses the engine emitted
    last_end,         \* history: how the last session ended, and whether a run()
                      \* has been dropped since
    after_queue,      \* callbacks scheduled with root.after(0, ...)
    display_status,   \* state of the status badge
    error_dialog,     \* the last error dialog shown
    clipboard,        \* what pyperclip.paste() does
    files,            \* the config directory: the settings file and the temporary
                      \* file of a save in progress
    gui,              \* the display thread's call in progress (pc and arguments)
    listener,         \* HotkeyListener._listener
    hotkey_lock,      \* HotkeyListener._lock: "" = free, else the thread holding it
    activate_hotkey,  \* HotkeyListener._activate_hotkey
    cancel_hotkey,    \* HotkeyListener._cancel_hotkey
    ev,               \* the event-delivery thread: the event being handled
    hk                \* history of the listener: events delivered, callbacks fired,
                      \* listeners created, keys reported down to each matcher

listener_vars == <<listener, hotkey_lock, activate_hotkey, cancel_hotkey, ev, hk>>

----------------------------------------------------------------------------
(* Bounds *)

MaxThreads == 2     \* worker threads alive at a time
MaxTextLen == 2     \* characters on the clipboard
MaxQueue == 1       \* callbacks waiting in the Tk queue
MaxCalls == 2       \* calls of the HotkeyListener API
MaxEvents == 4      \* key events delivered
MaxReadLen == 3     \* characters of a clipboard content read on its own
MaxTimers == 3      \* calls of after(100, ...) by the settings panel

----------------------------------------------------------------------------
(* Characters *)

LOWER == <<"a","b","c","d","e","f","g","h","i","j","k","l","m",
           "n","o","p","q","r","s","t","u","v","w","x","y","z">>
UPPER == <<"A","B","C","D","E","F","G","H","I","J","K","L","M",
           "N","O","P","Q","R","S","T","U","V","W","X","Y","Z">>

Range(s) == {s[n] : n \in DOMAIN s}

\* letters outside ASCII: (lower, upper); the lower case of the Kelvin sign
\* (U+212A) is the ASCII letter k
NonAscii == << <<"e_acute", "E_ACUTE">>, <<"k", "KELVIN_SIGN">> >>

IndexIn(s, c) == CHOOSE n \in DOMAIN s : s[n] = c

\* str.lower()
Lower(c) ==
    IF c \in Range(UPPER) THEN LOWER[IndexIn(UPPER, c)]
    ELSE IF \E p \in Range(NonAscii) : p[2] = c
         THEN (CHOOSE p \in Range(NonAscii) : p[2] = c)[1]
         ELSE c

\* str.upper()
Upper(c) ==
    IF c \in Range(LOWER) THEN UPPER[IndexIn(LOWER, c)]
    ELSE IF \E p \in Range(NonAscii) : p[1] = c
         THEN (CHOOSE p \in Range(NonAscii) : p[1] = c)[2]
         ELSE c

\* str.isupper() of a one-character string
IsUpper(c) == c \in Range(UPPER) \/ \E p \in Range(NonAscii) : p[2] = c

\* str.isalpha() of a one-character string
IsAlpha(c) ==
    \/ c \in Range(LOWER) \cup Range(UPPER)
    \/ \E p \in Range(NonAscii) : c \in Range(p)

----------------------------------------------------------------------------
(* TypoGenerator (src/engine/typo_generator.py) *)

ADJACENT_KEYS ==
    [c \in Range(LOWER) |->
        CASE c = "a" -> <<"s","q","z","w">>
          [] c = "b" -> <<"v","g","h","n">>
          [] c = "c" -> <<"x","d","f","v">>
          [] c = "d" -> <<"s","e","r","f","c","x">>
          [] c = "e" -> <<"w","s","d","r","3","4">>
          [] c = "f" -> <<"d","r","t","g","v","c">>
          [] c = "g" -> <<"f","t","y","h","b","v">>
          [] c = "h" -> <<"g","y","u","j","n","b">>
          [] c = "i" -> <<"u","j","k","o","8","9">>
          [] c = "j" -> <<"h","u","i","k","n","m">>
          [] c = "k" -> <<"j","i","o","l","m">>
          [] c = "l" -> <<"k","o","p",";">>
          [] c = "m" -> <<"n","j","k",",">>
          [] c = "n" -> <<"b","h","j","m">>
          [] c = "o" -> <<"i","k","l","p","9","0">>
          [] c = "p" -> <<"o","l","[","0","-">>
          [] c = "q" -> <<"w","a","1","2">>
          [] c = "r" -> <<"e","d","f","t","4","5">>
          [] c = "s" -> <<"a","w","e","d","x","z">>
          [] c = "t" -> <<"r","f","g","y","5","6">>
          [] c = "u" -> <<"y","h","j","i","7","8">>
          [] c = "v" -> <<"c","f","g","b">>
          [] c = "w" -> <<"q","a","s","e","2","3">>
          [] c = "x" -> <<"z","s","d","c">>
          [] c = "y" -> <<"t","g","h","u","6","7">>
          [] c = "z" -> <<"a","s","x">>]

None == "None"

\* TypoGenerator(typo_rate); the rate is kept in thousandths
TypoGenerator(typo_rate) == [typo_rate |-> typo_rate]

\* should_typo with <= for <
should_typoInclusive(tg) ==
    {b \in BOOLEAN : (b => tg.typo_rate >= 0) /\ (~b => tg.typo_rate < 1000)}

\* should_typo(): random.random() < typo_rate, random() in [0, 1)
should_typo(tg) ==
    {b \in BOOLEAN : (b => tg.typo_rate > 0) /\ (~b => tg.typo_rate < 1000)}

\* get_typo_char(c) without its isupper() branch
get_typo_charLowerOnly(c) ==
    IF Lower(c) \notin DOMAIN ADJACENT_KEYS THEN {None}
    ELSE Range(ADJACENT_KEYS[Lower(c)])

\* get_typo_char(c): the values random.choice can make it return
\* get_typo_char with every neighbour list holding its own letter as well
get_typo_charOrSelf(c) ==
    IF Lower(c) \notin DOMAIN ADJACENT_KEYS THEN {None}
    ELSE {IF IsUpper(c) THEN Upper(t) ELSE t :
             t \in Range(ADJACENT_KEYS[Lower(c)]) \cup {Lower(c)}}

get_typo_char(c) ==
    IF Lower(c) \notin DOMAIN ADJACENT_KEYS THEN {None}
    ELSE {IF IsUpper(c) THEN Upper(t) ELSE t : t \in Range(ADJACENT_KEYS[Lower(c)])}

----------------------------------------------------------------------------
(* DelayModel (src/engine/delay_model.py); times in microseconds *)

wpm_to_mean_delay_ms(wpm) == (60000000 \div wpm) \div 5

\* variance in hundredths
DelayModel(wpm, variance, min_ms, max_ms) ==
    [mean_ms   |-> wpm_to_mean_delay_ms(wpm),
     stddev_ms |-> (wpm_to_mean_delay_ms(wpm) * variance) \div 100,
     min_ms    |-> min_ms * 1000,
     max_ms    |-> max_ms * 1000]

\* random.gauss(mu, sigma) for the standard normal sample z, with sigma ignored:
\* the spread is one millisecond whatever the variance
random_gaussUnit(mu, sigma, z) == mu + z * 1000

\* random.gauss(mu, sigma): mu + z * sigma for a standard normal sample z
random_gauss(mu, sigma, z) == mu + z * sigma

\* next_delay without the floor: min(self.max_ms, delay_ms) only
next_delayNoFloor(self, z) ==
    LET delay_ms == random_gauss(self.mean_ms, self.stddev_ms, z)
    IN  IF delay_ms < self.max_ms THEN delay_ms ELSE self.max_ms

\* DelayModel.next_delay for the sample z: max(self.min_ms, min(self.max_ms,
\* delay_ms)) / 1000.0, the seconds in microseconds
next_delay(self, z) ==
    LET delay_ms == random_gauss(self.mean_ms, self.stddev_ms, z)
        capped   == IF delay_ms < self.max_ms THEN delay_ms ELSE self.max_ms
    IN  IF capped > self.min_ms THEN capped ELSE self.min_ms

----------------------------------------------------------------------------
(* Settings snapshots (src/config/config_store.py, AppSettings) *)

DefaultSettings ==
    [typing_speed_wpm |-> 70, speed_variance |-> 30, typo_rate |-> 15,
     min_delay_ms |-> 20, max_delay_ms |-> 300]

SteadySettings ==
    [typing_speed_wpm |-> 120, speed_variance |-> 0, typo_rate |-> 0,
     min_delay_ms |-> 1, max_delay_ms |-> 100]

SettingsChoices == {DefaultSettings, SteadySettings}

----------------------------------------------------------------------------
(* Clipboard (src/clipboard/clipboard_reader.py) *)

Chars == {"z", "\n"}

Texts == UNION {[1..n -> Chars] : n \in 0..MaxTextLen}

\* what pyperclip.paste() can do: return a string, return None, or raise
ClipboardContents ==
    {[kind |-> "text", text |-> t] : t \in Texts}
        \cup {[kind |-> "none", text |-> <<>>], [kind |-> "raises", text |-> <<>>]}

\* str.strip() == ""
IsBlank(text) == \A n \in DOMAIN text : text[n] \in {" ", "\n", "\t"}

\* ClipboardReader.read() testing content == "" in place of content.strip() == ""
ClipboardReadEmptyOnly(content) ==
    IF content.kind = "raises" THEN [error |-> "NonTextClipboardError", text |-> <<>>]
    ELSE IF content.kind = "none" \/ content.text = <<>>
         THEN [error |-> "EmptyClipboardError", text |-> <<>>]
         ELSE [error |-> "", text |-> content.text]

\* ClipboardReader.read(): the text it returns, or the error it raises
ClipboardRead(content) ==
    IF content.kind = "raises" THEN [error |-> "NonTextClipboardError", text |-> <<>>]
    ELSE IF content.kind = "none" \/ IsBlank(content.text)
         THEN [error |-> "EmptyClipboardError", text |-> <<>>]
         ELSE [error |-> "", text |-> content.text]

----------------------------------------------------------------------------
(* Files (src/config/config_store.py) *)

NoFile == [exists |-> FALSE]

\* neither the settings file nor a temporary file exists
NoFiles == [config |-> NoFile, tmp |-> NoFile]

----------------------------------------------------------------------------
(* Display (src/gui/main_window.py) *)

\* MainWindow.set_status / show_error: root.after(0, callback, argument)
RootAfter(queue, kind, arg) == Append(queue, [kind |-> kind, arg |-> arg])

\* the Tk main loop runs the oldest scheduled callback:
\* _update_status_display(status) or _show_error_main_thread(message)
DisplayStep ==
    /\ after_queue # <<>>
    /\ after_queue' = Tail(after_queue)
    /\ IF Head(after_queue).kind = "status"
       THEN /\ display_status' = Head(after_queue).arg
            /\ UNCHANGED error_dialog
       ELSE /\ error_dialog' = Head(after_queue).arg
            /\ UNCHANGED display_status
    /\ UNCHANGED <<typing_lock, cancel_event, delay_model, typo_generator,
                   threads, status_log, last_end, clipboard, files, gui, listener_vars>>

----------------------------------------------------------------------------
(* TypingEngine (src/engine/typing_engine.py) *)

Workers == 1..MaxThreads

Event(kind, val) == [kind |-> kind, val |-> val]

NoEvent == Event("", "")

\* no thread: a worker thread that has not been started, or has ended
FreeThread ==
    [pc |-> "free", text |-> <<>>, i |-> 0, typo |-> None, delay |-> None,
     last |-> NoEvent, out |-> <<>>, ended |-> "", cancels |-> "none",
     stale |-> FALSE, net |-> <<>>]

\* a thread as threading.Thread(target=self._engine.run, args=(text,)) starts it.
\* i is the number of characters the loop has taken from text; delay is the
\* DelayModel that drew the delay of the thread's latest sleep; last, out, ended,
\* cancels and stale are history: the last injection or sleep of this run(), the
\* statuses it emitted, the exception that is ending it, how cancel() calls fell
\* relative to it, whether the signal was set when its clear() ran, and the text
\* its injections have produced so far
NewThread(text) == [FreeThread EXCEPT !.pc = "start", !.text = text]

\* the positions of run() at which the caller holds _typing_lock
HoldingPcs ==
    {"clear", "emit_typing", "loop", "press_special", "release_special",
     "type_typo", "sleep_typo", "press_backspace", "release_backspace",
     "sleep_half", "type_char", "sleep", "emit_cancelled", "emit_idle", "finally"}

\* the positions inside the for loop, processing the character text[i]
CharPcs ==
    {"press_special", "release_special", "type_typo", "sleep_typo",
     "press_backspace", "release_backspace", "sleep_half", "type_char", "sleep"}

\* RunAcquire with the result of acquire() ignored
RunAcquireUnchecked(w) ==
    /\ threads[w].pc = "start"
    /\ typing_lock' = w
    /\ threads' = [threads EXCEPT ![w].pc = "clear"]
    /\ UNCHANGED <<cancel_event, delay_model, typo_generator, status_log, last_end,
                   after_queue, display_status, error_dialog, clipboard, files, gui,
                   listener_vars>>

\* RunAcquire with the early return placed inside the try block
RunAcquireReleases(w) ==
    /\ threads[w].pc = "start"
    /\ IF typing_lock # 0
       THEN /\ threads' = [threads EXCEPT ![w].pc = "finally"]
            /\ UNCHANGED typing_lock
       ELSE /\ typing_lock' = w
            /\ threads' = [threads EXCEPT ![w].pc = "clear"]
    /\ UNCHANGED <<cancel_event, delay_model, typo_generator, status_log, last_end,
                   after_queue, display_status, error_dialog, clipboard, files, gui,
                   listener_vars>>

\* if not self._typing_lock.acquire(blocking=False): return
RunAcquire(w) ==
    /\ threads[w].pc = "start"
    /\ IF typing_lock # 0
       THEN /\ threads' = [threads EXCEPT ![w] = FreeThread]
            /\ last_end' = [last_end EXCEPT !.dropped = TRUE]
            /\ UNCHANGED typing_lock
       ELSE /\ typing_lock' = w
            /\ threads' = [threads EXCEPT ![w].pc = "clear"]
            /\ UNCHANGED last_end
    /\ UNCHANGED <<cancel_event, delay_model, typo_generator, status_log,
                   after_queue, display_status, error_dialog, clipboard, files, gui,
                   listener_vars>>

\* RunClear without the clear()
RunClearKeepsSignal(w) ==
    /\ threads[w].pc = "clear"
    /\ cancel_event' = cancel_event
    /\ threads' = [threads EXCEPT ![w].pc = "emit_typing", ![w].stale = cancel_event]
    /\ UNCHANGED <<typing_lock, delay_model, typo_generator, status_log, last_end,
                   after_queue, display_status, error_dialog, clipboard, files, gui,
                   listener_vars>>

\* self._cancel_event.clear()
RunClear(w) ==
    /\ threads[w].pc = "clear"
    /\ cancel_event' = FALSE
    /\ threads' = [threads EXCEPT ![w].pc = "emit_typing", ![w].stale = cancel_event]
    /\ UNCHANGED <<typing_lock, delay_model, typo_generator, status_log, last_end,
                   after_queue, display_status, error_dialog, clipboard, files, gui,
                   listener_vars>>

\* the last two entries of a history
LastTwo(seq) == IF Len(seq) > 2 THEN SubSeq(seq, Len(seq) - 1, Len(seq)) ELSE seq

\* self._on_status_change(status): AppController._on_status_change forwards to
\* MainWindow.set_status, which schedules the update or raises; ok says which
EmitStatus(w, status, ok, next) ==
    /\ status_log' = LastTwo(Append(status_log, status))
    /\ IF ok
       THEN /\ Len(after_queue) < MaxQueue
            /\ after_queue' = RootAfter(after_queue, "status", status)
            /\ threads' = [threads EXCEPT
                              ![w].pc = next,
                              ![w].out = Append(@, status)]
       ELSE /\ UNCHANGED after_queue
            /\ threads' = [threads EXCEPT
                              ![w].pc = "finally", ![w].ended = "StatusError",
                              ![w].out = Append(@, status)]
    /\ UNCHANGED <<typing_lock, cancel_event, delay_model, typo_generator, last_end,
                   display_status, error_dialog, clipboard, files, gui, listener_vars>>

\* self._on_status_change("typing")
RunEmitTyping(w) ==
    /\ threads[w].pc = "emit_typing"
    /\ \E ok \in BOOLEAN : EmitStatus(w, "typing", ok, "loop")

\* where the loop body goes for the character c: the special-key branches, or the
\* typo branch when c.isalpha(), should_typo() and get_typo_char(c) is not None
Dispatch(c, tg) ==
    IF c \in {"\n", "\t"}
    THEN {[pc |-> "press_special", typo |-> None]}
    ELSE {[pc |-> "type_typo", typo |-> t] :
             t \in {x \in get_typo_char(c) :
                       IsAlpha(c) /\ TRUE \in should_typo(tg) /\ x # None}}
         \cup {[pc |-> "type_char", typo |-> None] :
                 x \in {y \in {0} : ~IsAlpha(c) \/ FALSE \in should_typo(tg)
                                    \/ None \in get_typo_char(c)}}

\* RunLoop without the check of the cancellation signal
RunLoopNoCheck(w) ==
    /\ threads[w].pc = "loop"
    /\ IF threads[w].i = Len(threads[w].text)
       THEN threads' = [threads EXCEPT ![w].pc = "emit_idle"]
       ELSE \E d \in Dispatch(threads[w].text[threads[w].i + 1], typo_generator) :
               threads' = [threads EXCEPT ![w].pc = d.pc, ![w].typo = d.typo,
                                          ![w].i = threads[w].i + 1]
    /\ UNCHANGED <<typing_lock, cancel_event, delay_model, typo_generator, status_log,
                   last_end, after_queue, display_status, error_dialog, clipboard, files,
                   gui, listener_vars>>

\* RunLoop with the check made before the first character only
RunLoopCheckOnce(w) ==
    /\ threads[w].pc = "loop"
    /\ IF threads[w].i = Len(threads[w].text)
       THEN threads' = [threads EXCEPT ![w].pc = "emit_idle"]
       ELSE IF cancel_event /\ threads[w].i = 0
       THEN threads' = [threads EXCEPT ![w].pc = "emit_cancelled"]
       ELSE \E d \in Dispatch(threads[w].text[threads[w].i + 1], typo_generator) :
               threads' = [threads EXCEPT ![w].pc = d.pc, ![w].typo = d.typo,
                                          ![w].i = threads[w].i + 1]
    /\ UNCHANGED <<typing_lock, cancel_event, delay_model, typo_generator, status_log,
                   last_end, after_queue, display_status, error_dialog, clipboard, files,
                   gui, listener_vars>>

\* for char in text: if self._cancel_event.is_set(): ...; the if/elif/else on char
RunLoop(w) ==
    /\ threads[w].pc = "loop"
    /\ IF threads[w].i = Len(threads[w].text)
       THEN threads' = [threads EXCEPT ![w].pc = "emit_idle"]
       ELSE IF cancel_event
       THEN threads' = [threads EXCEPT ![w].pc = "emit_cancelled"]
       ELSE \E d \in Dispatch(threads[w].text[threads[w].i + 1], typo_generator) :
               threads' = [threads EXCEPT ![w].pc = d.pc, ![w].typo = d.typo,
                                          ![w].i = threads[w].i + 1]
    /\ UNCHANGED <<typing_lock, cancel_event, delay_model, typo_generator, status_log,
                   last_end, after_queue, display_status, error_dialog, clipboard, files,
                   gui, listener_vars>>

\* RunEmitCancelled without the status: the loop returns silently
RunReturnSilently(w) ==
    /\ threads[w].pc = "emit_cancelled"
    /\ threads' = [threads EXCEPT ![w].pc = "finally"]
    /\ UNCHANGED <<typing_lock, cancel_event, delay_model, typo_generator, status_log,
                   last_end, after_queue, display_status, error_dialog, clipboard, files,
                   gui, listener_vars>>

\* self._on_status_change("cancelled"); return
RunEmitCancelled(w) ==
    /\ threads[w].pc = "emit_cancelled"
    /\ \E ok \in BOOLEAN : EmitStatus(w, "cancelled", ok, "finally")

\* self._on_status_change("idle")
RunEmitIdle(w) ==
    /\ threads[w].pc = "emit_idle"
    /\ \E ok \in BOOLEAN : EmitStatus(w, "idle", ok, "finally")

\* the text in the focused window after one more injection: type(c) appends c,
\* pressing Enter or Tab appends the character it stands for, pressing Backspace
\* deletes the last character, and a release changes nothing
Produced(net, kind, key) ==
    IF kind = "type" THEN Append(net, key)
    ELSE IF kind = "press" /\ key = "Key.enter" THEN Append(net, "\n")
    ELSE IF kind = "press" /\ key = "Key.tab" THEN Append(net, "\t")
    ELSE IF kind = "press" /\ key = "Key.backspace" /\ net # <<>>
    THEN SubSeq(net, 1, Len(net) - 1)
    ELSE net

\* Inject in a run() without try/finally: the exception ends the thread at once
InjectNoFinally(w, kind, key, ok, next) ==
    /\ IF ok
       THEN /\ threads' = [threads EXCEPT ![w].pc = next,
                                          ![w].last = Event(kind, key),
                                          ![w].net = Produced(@, kind, key)]
            /\ UNCHANGED last_end
       ELSE /\ threads' = [threads EXCEPT ![w] = FreeThread]
            /\ last_end' = [session |-> "InjectError", dropped |-> FALSE]
    /\ UNCHANGED <<typing_lock, cancel_event, delay_model, typo_generator, status_log,
                   after_queue, display_status, error_dialog, clipboard, files, gui,
                   listener_vars>>

\* one call of the pynput Controller (press, release or type): it injects the key
\* or raises; ok says which
Inject(w, kind, key, ok, next) ==
    /\ IF ok
       THEN threads' = [threads EXCEPT ![w].pc = next,
                                       ![w].last = Event(kind, key),
                                       ![w].net = Produced(@, kind, key)]
       ELSE threads' = [threads EXCEPT ![w].pc = "finally", ![w].ended = "InjectError"]
    /\ UNCHANGED <<typing_lock, cancel_event, delay_model, typo_generator, status_log,
                   last_end, after_queue, display_status, error_dialog, clipboard, files,
                   gui, listener_vars>>

SpecialKey(c) == IF c = "\n" THEN "Key.enter" ELSE "Key.tab"

CurChar(w) == threads[w].text[threads[w].i]

\* self._controller.press(Key.enter) / press(Key.tab)
RunPressSpecial(w) ==
    /\ threads[w].pc = "press_special"
    /\ \E ok \in BOOLEAN :
          Inject(w, "press", SpecialKey(CurChar(w)), ok, "release_special")

\* self._controller.release(Key.enter) / release(Key.tab)
RunReleaseSpecial(w) ==
    /\ threads[w].pc = "release_special"
    /\ \E ok \in BOOLEAN : Inject(w, "release", SpecialKey(CurChar(w)), ok, "sleep")

\* RunTypeTypo with the loop body going on to the correct character at once
RunTypeTypoUncorrected(w) ==
    /\ threads[w].pc = "type_typo"
    /\ \E ok \in BOOLEAN : Inject(w, "type", threads[w].typo, ok, "type_char")

\* self._type_char(typo_char)
RunTypeTypo(w) ==
    /\ threads[w].pc = "type_typo"
    /\ \E ok \in BOOLEAN : Inject(w, "type", threads[w].typo, ok, "sleep_typo")

\* time.sleep(self._delay_model.next_delay() * factor): the delay is drawn from the
\* model assigned at this moment, and the thread sleeps until its next step
Sleep(w, factor, next) ==
    /\ threads' = [threads EXCEPT ![w].pc = next,
                                  ![w].delay = delay_model,
                                  ![w].last = Event("sleep", factor)]
    /\ UNCHANGED <<typing_lock, cancel_event, delay_model, typo_generator, status_log,
                   last_end, after_queue, display_status, error_dialog, clipboard, files,
                   gui, listener_vars>>

\* time.sleep(self._delay_model.next_delay()) after the typo
RunSleepTypo(w) ==
    /\ threads[w].pc = "sleep_typo"
    /\ Sleep(w, "one", "press_backspace")

\* self._controller.press(Key.backspace)
RunPressBackspace(w) ==
    /\ threads[w].pc = "press_backspace"
    /\ \E ok \in BOOLEAN : Inject(w, "press", "Key.backspace", ok, "release_backspace")

\* self._controller.release(Key.backspace)
RunReleaseBackspace(w) ==
    /\ threads[w].pc = "release_backspace"
    /\ \E ok \in BOOLEAN : Inject(w, "release", "Key.backspace", ok, "sleep_half")

\* RunSleepHalf with a whole delay
RunSleepWhole(w) ==
    /\ threads[w].pc = "sleep_half"
    /\ Sleep(w, "one", "type_char")

\* time.sleep(self._delay_model.next_delay() * 0.5)
RunSleepHalf(w) ==
    /\ threads[w].pc = "sleep_half"
    /\ Sleep(w, "half", "type_char")

\* self._type_char(char)
RunTypeChar(w) ==
    /\ threads[w].pc = "type_char"
    /\ \E ok \in BOOLEAN : Inject(w, "type", CurChar(w), ok, "sleep")

\* time.sleep(self._delay_model.next_delay()) at the end of the loop body
RunSleep(w) ==
    /\ threads[w].pc = "sleep"
    /\ Sleep(w, "one", "loop")

\* finally: self._typing_lock.release(); run() returns or the exception leaves it,
\* and the thread ends
RunFinally(w) ==
    /\ threads[w].pc = "finally"
    /\ typing_lock' = 0
    /\ last_end' = [session |-> IF threads[w].ended = "" THEN "returned"
                                 ELSE threads[w].ended,
                     dropped |-> FALSE]
    /\ threads' = [threads EXCEPT ![w] = FreeThread]
    /\ UNCHANGED <<cancel_event, delay_model, typo_generator, status_log,
                   after_queue, display_status, error_dialog, clipboard, files, gui,
                   listener_vars>>

\* how a cancel() call falls relative to a run() that holds the run-lock and has
\* characters left to take: "early" if before its clear(), "live" if after it
NoteCancel(th) ==
    IF th.pc \in HoldingPcs \ {"finally"} /\ th.i < Len(th.text)
    THEN IF th.pc # "clear" THEN "live"
         ELSE IF th.cancels = "none" THEN "early" ELSE th.cancels
    ELSE th.cancels

\* TypingEngine.cancel(): self._cancel_event.set()
TypingEngine_cancel ==
    /\ cancel_event' = TRUE
    /\ threads' = [w \in Workers |->
                      [threads[w] EXCEPT !.cancels = NoteCancel(threads[w])]]

\* AppController._on_cancel
OnCancel ==
    /\ TypingEngine_cancel
    /\ UNCHANGED <<typing_lock, delay_model, typo_generator, status_log, last_end,
                   after_queue, display_status, error_dialog, clipboard, files, gui,
                   listener_vars>>

FreeWorkers == {w \in Workers : threads[w].pc = "free"}

\* AppController._on_activate: read the clipboard; start a worker thread or show
\* the error
\* _on_activate without the returns of its except clauses: the worker is spawned
\* after the error was reported
OnActivateSpawnsAnyway ==
    LET r == ClipboardRead(clipboard) IN
    /\ FreeWorkers # {}
    /\ threads' = [threads EXCEPT
                      ![CHOOSE w \in FreeWorkers : \A u \in FreeWorkers : w <= u]
                          = NewThread(r.text)]
    /\ IF r.error = ""
       THEN UNCHANGED after_queue
       ELSE /\ Len(after_queue) < MaxQueue
            /\ after_queue' = RootAfter(after_queue, "error", r.error)

AppController_on_activate ==
    LET r == ClipboardRead(clipboard) IN
    IF r.error = ""
    THEN /\ FreeWorkers # {}
         /\ threads' = [threads EXCEPT
                           ![CHOOSE w \in FreeWorkers : \A u \in FreeWorkers : w <= u]
                               = NewThread(r.text)]
         /\ UNCHANGED after_queue
    ELSE /\ Len(after_queue) < MaxQueue
         /\ after_queue' = RootAfter(after_queue, "error", r.error)
         /\ UNCHANGED threads

OnActivate ==
    /\ AppController_on_activate
    /\ UNCHANGED <<typing_lock, cancel_event, delay_model, typo_generator, status_log,
                   last_end, display_status, error_dialog, clipboard, files, gui,
                   listener_vars>>

\* UpdateSettingsDelay reaching into the sleeps in progress: their delays are
\* redrawn from the new model
UpdateSettingsDelayRetroactive ==
    /\ gui.pc = "idle"
    /\ \E s \in SettingsChoices :
          /\ delay_model' = DelayModel(s.typing_speed_wpm, s.speed_variance,
                                       s.min_delay_ms, s.max_delay_ms)
          /\ threads' = [w \in Workers |->
                            IF threads[w].last.kind # "sleep" THEN threads[w]
                            ELSE [threads[w] EXCEPT !.delay = delay_model']]
          /\ gui' = [gui EXCEPT !.pc = "update_typo", !.settings = s]
    /\ UNCHANGED <<typing_lock, cancel_event, typo_generator, status_log,
                   last_end, after_queue, display_status, error_dialog, clipboard, files,
                   listener_vars>>

\* TypingEngine.update_settings, first statement: self._delay_model = DelayModel(...)
UpdateSettingsDelay ==
    /\ gui.pc = "idle"
    /\ \E s \in SettingsChoices :
          /\ delay_model' = DelayModel(s.typing_speed_wpm, s.speed_variance,
                                       s.min_delay_ms, s.max_delay_ms)
          /\ gui' = [gui EXCEPT !.pc = "update_typo", !.settings = s]
    /\ UNCHANGED <<typing_lock, cancel_event, typo_generator, threads, status_log,
                   last_end, after_queue, display_status, error_dialog, clipboard, files,
                   listener_vars>>

\* TypingEngine.update_settings, second statement: self._typo_generator = ...
UpdateSettingsTypo ==
    /\ gui.pc = "update_typo"
    /\ typo_generator' = TypoGenerator(gui.settings.typo_rate)
    /\ gui' = [gui EXCEPT !.pc = "idle"]
    /\ UNCHANGED <<typing_lock, cancel_event, delay_model, threads, status_log,
                   last_end, after_queue, display_status, error_dialog, clipboard, files,
                   listener_vars>>

----------------------------------------------------------------------------
(* pynput keys, as HotkeyListener uses them (src/hotkey/hotkey_listener.py) *)

\* the key identities the OS reports
RawKeys == {"Key.ctrl_l", "K", "Key.esc"}

\* keyboard.Listener.canonical(key): modifiers lose their side, characters their case
ListenerCanonical(key) ==
    IF key \in {"Key.ctrl_l", "Key.ctrl_r"} THEN "Key.ctrl"
    ELSE IF key \in Range(UPPER) THEN Lower(key)
    ELSE key

\* a chord string is kept as its '+'-separated parts
ChordStrings ==
    {<<"<ctrl>", "k">>, <<"<esc>">>, <<"<ctrl>", "">>, <<"k", "K">>}

\* one part of a chord string: a single character is that character's key in lower
\* case, <name> is the key of that name, anything else is a ValueError
ParsePart(part) ==
    IF part \in Range(LOWER) \cup Range(UPPER) THEN Lower(part)
    ELSE IF part = "<ctrl>" THEN "Key.ctrl"
    ELSE IF part = "<esc>" THEN "Key.esc"
    ELSE "ValueError"

\* keyboard.HotKey.parse(combo): the keys, or ValueError for an empty or unknown
\* part or a repeated key
HotKeyParse(combo) ==
    LET keys == {ParsePart(combo[n]) : n \in DOMAIN combo} IN
    IF combo = <<>> \/ "ValueError" \in keys \/ Cardinality(keys) # Len(combo)
    THEN [ok |-> FALSE, keys |-> {}]
    ELSE [ok |-> TRUE, keys |-> keys]

NoHotKey == [keys |-> {}, state |-> {}, on_activate |-> "", n |-> 0, op |-> ""]

\* keyboard.HotKey(keys, on_activate); n and op are history: the call that made it
HotKey(keys, on_activate, n, op) ==
    [keys |-> keys, state |-> {}, on_activate |-> on_activate, n |-> n, op |-> op]

\* HotKey.press(key): the new state
HotKeyPress(h, key) ==
    IF key \in h.keys /\ key \notin h.state
    THEN [h EXCEPT !.state = h.state \cup {key}]
    ELSE h

\* HotKey.press(key) calls on_activate
HotKeyFires(h, key) ==
    key \in h.keys /\ key \notin h.state /\ h.state \cup {key} = h.keys

\* HotKey.release(key): the new state
HotKeyRelease(h, key) == [h EXCEPT !.state = h.state \ {key}]

----------------------------------------------------------------------------
(* HotkeyListener (src/hotkey/hotkey_listener.py) *)

engine_vars == <<typing_lock, cancel_event, delay_model, typo_generator, threads,
                 status_log, last_end, after_queue, display_status, error_dialog,
                 clipboard>>

\* HotkeyListener.is_running
is_running == listener = "alive"

\* _canonical handing the key on as the listener thread reported it
CanonicalRaw(key) == key

\* HotkeyListener._canonical(key)
Canonical(key) == IF listener # "None" THEN ListenerCanonical(key) ELSE key

\* SetHotkeysParses with the cancel chord parsed only after the activate matcher
\* is set
SetHotkeysParsesActivateFirst(a, c) == HotKeyParse(a).ok

\* _set_hotkeys, the two parse calls: both chords are parsed before anything is set
SetHotkeysParses(a, c) == HotKeyParse(a).ok /\ HotKeyParse(c).ok

\* Start with the listener created before the chords are parsed
StartListenerFirst ==
    /\ gui.pc = "idle"
    /\ gui.n < MaxCalls
    /\ \E a \in ChordStrings, c \in ChordStrings :
          gui' = [gui EXCEPT
                     !.op = "start", !.n = gui.n + 1, !.a = a, !.c = c,
                     !.pc = IF SetHotkeysParses(a, c) THEN "set_activate" ELSE "idle",
                     !.result = IF SetHotkeysParses(a, c) THEN "" ELSE "ValueError"]
    /\ listener' = "alive"
    /\ hk' = [hk EXCEPT !.created = hk.created + 1]
    /\ UNCHANGED <<engine_vars, files, hotkey_lock, activate_hotkey, cancel_hotkey, ev>>

\* HotkeyListener.start(a, c) up to the end of the parsing in _set_hotkeys
Start ==
    /\ gui.pc = "idle"
    /\ gui.n < MaxCalls
    /\ \E a \in ChordStrings, c \in ChordStrings :
          gui' = [gui EXCEPT
                     !.op = "start", !.n = gui.n + 1, !.a = a, !.c = c,
                     !.pc = IF SetHotkeysParses(a, c) THEN "set_activate" ELSE "idle",
                     !.result = IF SetHotkeysParses(a, c) THEN "" ELSE "ValueError"]
    /\ UNCHANGED <<engine_vars, files, listener, hotkey_lock, activate_hotkey, cancel_hotkey,
                   ev, hk>>

\* Rebind without the mutex
RebindUnlocked ==
    /\ gui.pc = "idle"
    /\ gui.n < MaxCalls
    /\ \E a \in ChordStrings, c \in ChordStrings :
          gui' = [gui EXCEPT
                     !.op = "rebind", !.n = gui.n + 1, !.a = a, !.c = c,
                     !.pc = IF SetHotkeysParses(a, c) THEN "set_activate" ELSE "idle",
                     !.result = IF SetHotkeysParses(a, c) THEN "" ELSE "ValueError"]
    /\ UNCHANGED <<engine_vars, files, listener, hotkey_lock, activate_hotkey, cancel_hotkey,
                   ev, hk>>

\* HotkeyListener.rebind(a, c): with self._lock, up to the end of the parsing in
\* _set_hotkeys; a ValueError leaves the with block, which releases the lock
Rebind ==
    /\ gui.pc = "idle"
    /\ gui.n < MaxCalls
    /\ hotkey_lock = ""
    /\ \E a \in ChordStrings, c \in ChordStrings :
          /\ gui' = [gui EXCEPT
                        !.op = "rebind", !.n = gui.n + 1, !.a = a, !.c = c,
                        !.pc = IF SetHotkeysParses(a, c) THEN "set_activate" ELSE "idle",
                        !.result = IF SetHotkeysParses(a, c) THEN "" ELSE "ValueError"]
          /\ hotkey_lock' = IF SetHotkeysParses(a, c) THEN "gui" ELSE ""
    /\ UNCHANGED <<engine_vars, files, listener, activate_hotkey, cancel_hotkey, ev, hk>>

\* _set_hotkeys: self._activate_hotkey = keyboard.HotKey(activate_keys, ...)
SetHotkeysActivate ==
    /\ gui.pc = "set_activate"
    /\ activate_hotkey' = HotKey(HotKeyParse(gui.a).keys, "activate", gui.n, gui.op)
    /\ hk' = [hk EXCEPT !.down.activate = {}]
    /\ gui' = [gui EXCEPT !.pc = "set_cancel"]
    /\ UNCHANGED <<engine_vars, files, listener, hotkey_lock, cancel_hotkey, ev>>

\* _set_hotkeys: self._cancel_hotkey = keyboard.HotKey(cancel_keys, ...)
SetHotkeysCancel ==
    /\ gui.pc = "set_cancel"
    /\ cancel_hotkey' = HotKey(HotKeyParse(gui.c).keys, "cancel", gui.n, gui.op)
    /\ hk' = [hk EXCEPT !.down.cancel = {}]
    /\ gui' = [gui EXCEPT !.pc = IF gui.op = "start" THEN "listener" ELSE "unlock",
                          !.a = <<>>, !.c = <<>>]
    /\ UNCHANGED <<engine_vars, files, listener, hotkey_lock, activate_hotkey, ev>>

\* start: self._listener = keyboard.Listener(...); self._listener.start()
StartListener ==
    /\ gui.pc = "listener"
    /\ listener' = "alive"
    /\ hk' = [hk EXCEPT !.created = hk.created + 1]
    /\ gui' = [gui EXCEPT !.pc = "idle"]
    /\ UNCHANGED <<engine_vars, files, hotkey_lock, activate_hotkey, cancel_hotkey, ev>>

\* rebind: the end of the with block
RebindUnlock ==
    /\ gui.pc = "unlock"
    /\ hotkey_lock' = ""
    /\ gui' = [gui EXCEPT !.pc = "idle"]
    /\ UNCHANGED <<engine_vars, files, listener, activate_hotkey, cancel_hotkey, ev, hk>>

\* HotkeyListener.stop(): stop the listener, join its thread, forget it
Stop ==
    /\ gui.pc = "idle"
    /\ gui.n < MaxCalls
    /\ ev.pc = "idle"
    /\ listener' = "None"
    /\ gui' = [gui EXCEPT !.op = "stop", !.n = gui.n + 1, !.result = ""]
    /\ UNCHANGED <<engine_vars, files, hotkey_lock, activate_hotkey, cancel_hotkey, ev, hk>>

\* the listener thread calls _on_press(key) or _on_release(key), which enters
\* with self._lock
OnEvent ==
    /\ listener = "alive"
    /\ ev.pc = "idle"
    /\ hotkey_lock = ""
    /\ hk.events < MaxEvents
    /\ \E kind \in {"press", "release"}, key \in RawKeys :
          ev' = [pc |-> "activate", kind |-> kind, key |-> key, n |-> 0, op |-> ""]
    /\ hotkey_lock' = "listener"
    /\ hk' = [hk EXCEPT !.events = hk.events + 1]
    /\ UNCHANGED <<engine_vars, files, gui, listener, activate_hotkey, cancel_hotkey>>

\* Callback with the activate callback waiting for the run-lock, as it would if it
\* called run() itself
CallbackWaitsForLock(fires, h) ==
    IF fires /\ h.on_activate = "activate"
    THEN /\ typing_lock = 0
         /\ AppController_on_activate
         /\ UNCHANGED <<typing_lock, cancel_event, delay_model, typo_generator,
                        status_log, last_end, display_status, error_dialog,
                        clipboard, files>>
    ELSE IF fires /\ h.on_activate = "cancel"
    THEN /\ TypingEngine_cancel
         /\ UNCHANGED <<typing_lock, delay_model, typo_generator, status_log,
                        last_end, after_queue, display_status, error_dialog,
                        clipboard, files>>
    ELSE UNCHANGED <<engine_vars, files>>

\* what a matcher's callback does: AppController._on_activate or _on_cancel
Callback(fires, h) ==
    IF fires /\ h.on_activate = "activate"
    THEN /\ AppController_on_activate
         /\ UNCHANGED <<typing_lock, cancel_event, delay_model, typo_generator,
                        status_log, last_end, display_status, error_dialog,
                        clipboard, files>>
    ELSE IF fires /\ h.on_activate = "cancel"
    THEN /\ TypingEngine_cancel
         /\ UNCHANGED <<typing_lock, delay_model, typo_generator, status_log,
                        last_end, after_queue, display_status, error_dialog,
                        clipboard, files>>
    ELSE UNCHANGED <<engine_vars, files>>

\* the keys of the chord reported down: a press adds the key, a release removes it
Reported(down, keys, kind, key) ==
    IF kind = "press" THEN down \cup ({key} \cap keys) ELSE down \ {key}

\* Deliver with releases not forwarded to the matcher
DeliverPressOnly(h, kind, key) ==
    IF h = NoHotKey THEN h
    ELSE IF kind = "press" THEN HotKeyPress(h, Canonical(key))
    ELSE h

\* one matcher's share of _on_press / _on_release:
\* if h is not None: h.press(self._canonical(key)) or h.release(...)
Deliver(h, kind, key) ==
    IF h = NoHotKey THEN h
    ELSE IF kind = "press" THEN HotKeyPress(h, Canonical(key))
    ELSE HotKeyRelease(h, Canonical(key))

DeliverFires(h, kind, key) ==
    h # NoHotKey /\ kind = "press" /\ HotKeyFires(h, Canonical(key))

\* _on_press / _on_release: the activate matcher
OnEventActivate ==
    /\ ev.pc = "activate"
    /\ activate_hotkey' = Deliver(activate_hotkey, ev.kind, ev.key)
    /\ Callback(DeliverFires(activate_hotkey, ev.kind, ev.key), activate_hotkey)
    /\ hk' = [hk EXCEPT
                 !.down.activate = Reported(@, activate_hotkey.keys, ev.kind,
                                            ListenerCanonical(ev.key)),
                 !.fired.activate =
                     IF DeliverFires(activate_hotkey, ev.kind, ev.key) THEN @ + 1 ELSE @]
    /\ ev' = [ev EXCEPT !.pc = "cancel", !.n = activate_hotkey.n,
                        !.op = activate_hotkey.op]
    /\ UNCHANGED <<gui, listener, hotkey_lock, cancel_hotkey>>

\* _on_press / _on_release: the cancel matcher, and the end of the with block
OnEventCancel ==
    /\ ev.pc = "cancel"
    /\ cancel_hotkey' = Deliver(cancel_hotkey, ev.kind, ev.key)
    /\ Callback(DeliverFires(cancel_hotkey, ev.kind, ev.key), cancel_hotkey)
    /\ hk' = [hk EXCEPT
                 !.down.cancel = Reported(@, cancel_hotkey.keys, ev.kind,
                                          ListenerCanonical(ev.key)),
                 !.fired.cancel =
                     IF DeliverFires(cancel_hotkey, ev.kind, ev.key) THEN @ + 1 ELSE @]
    /\ ev' = [ev EXCEPT !.pc = "idle"]
    /\ hotkey_lock' = ""
    /\ UNCHANGED <<gui, listener, activate_hotkey>>

----------------------------------------------------------------------------

vars == <<typing_lock, cancel_event, delay_model, typo_generator, threads, status_log,
          last_end, after_queue, display_status, error_dialog, clipboard, files,
          gui, listener, hotkey_lock, activate_hotkey, cancel_hotkey, ev, hk>>

\* the objects AppController.__init__ constructs
Constructed ==
    /\ typing_lock = 0
    /\ cancel_event = FALSE
    /\ \E s \in SettingsChoices :
          /\ delay_model = DelayModel(s.typing_speed_wpm, s.speed_variance,
                                      s.min_delay_ms, s.max_delay_ms)
          /\ typo_generator = TypoGenerator(s.typo_rate)
          /\ gui = [pc |-> "idle", op |-> "", n |-> 0, settings |-> s,
                    a |-> <<>>, c |-> <<>>, result |-> ""]
    /\ threads = [w \in Workers |-> FreeThread]
    /\ status_log = <<>>
    /\ last_end = [session |-> "", dropped |-> FALSE]
    /\ after_queue = <<>>
    /\ display_status = "idle"
    /\ error_dialog = ""
    /\ files = NoFiles
    /\ listener = "None"
    /\ hotkey_lock = ""
    /\ activate_hotkey = NoHotKey
    /\ cancel_hotkey = NoHotKey
    /\ ev = [pc |-> "idle", kind |-> "", key |-> "", n |-> 0, op |-> ""]
    /\ hk = [events |-> 0, created |-> 0,
             fired |-> [activate |-> 0, cancel |-> 0],
             down |-> [activate |-> {}, cancel |-> {}]]

Init == Constructed /\ clipboard \in ClipboardContents

\* the engine: activations and cancellations as the listener's callbacks make
\* them, the worker threads, the display
Next ==
    \/ OnActivate
    \/ OnCancel
    \/ DisplayStep
    \/ \E w \in Workers :
          \/ RunAcquire(w)
          \/ RunClear(w)
          \/ RunEmitTyping(w)
          \/ RunLoop(w)
          \/ RunPressSpecial(w)
          \/ RunReleaseSpecial(w)
          \/ RunTypeTypo(w)
          \/ RunSleepTypo(w)
          \/ RunPressBackspace(w)
          \/ RunReleaseBackspace(w)
          \/ RunSleepHalf(w)
          \/ RunTypeChar(w)
          \/ RunSleep(w)
          \/ RunEmitCancelled(w)
          \/ RunEmitIdle(w)
          \/ RunFinally(w)

\* the application constructed from the default settings
InitTyping == Init /\ gui.settings = DefaultSettings

Spec == InitTyping /\ [][Next]_vars

\* the listener: the calls of its API and the events delivered to it, with one
\* character of text on the clipboard
InitHotkey == InitTyping /\ clipboard = [kind |-> "text", text |-> <<"z">>]

NextHotkey ==
    \/ Start
    \/ Rebind
    \/ SetHotkeysActivate
    \/ SetHotkeysCancel
    \/ StartListener
    \/ RebindUnlock
    \/ Stop
    \/ OnEvent
    \/ OnEventActivate
    \/ OnEventCancel

SpecHotkey == InitHotkey /\ [][NextHotkey]_vars

\* the running application: AppController.start() has started the listener with
\* the chords <ctrl>+k and <esc>, there is text on the clipboard; key events are
\* delivered while worker threads type
InitApp ==
    /\ typing_lock = 0
    /\ cancel_event = FALSE
    /\ delay_model = DelayModel(DefaultSettings.typing_speed_wpm,
                                DefaultSettings.speed_variance,
                                DefaultSettings.min_delay_ms,
                                DefaultSettings.max_delay_ms)
    /\ typo_generator = TypoGenerator(DefaultSettings.typo_rate)
    /\ gui = [pc |-> "idle", op |-> "start", n |-> 1, settings |-> DefaultSettings,
              a |-> <<>>, c |-> <<>>, result |-> ""]
    /\ threads = [w \in Workers |-> FreeThread]
    /\ status_log = <<>>
    /\ last_end = [session |-> "", dropped |-> FALSE]
    /\ after_queue = <<>>
    /\ display_status = "idle"
    /\ error_dialog = ""
    /\ files = NoFiles
    /\ clipboard = [kind |-> "text", text |-> <<"\n", "z">>]
    /\ listener = "alive"
    /\ hotkey_lock = ""
    /\ activate_hotkey = HotKey(HotKeyParse(<<"<ctrl>", "k">>).keys, "activate", 1, "start")
    /\ cancel_hotkey = HotKey(HotKeyParse(<<"<esc>">>).keys, "cancel", 1, "start")
    /\ ev = [pc |-> "idle", kind |-> "", key |-> "", n |-> 0, op |-> ""]
    /\ hk = [events |-> 0, created |-> 1,
             fired |-> [activate |-> 0, cancel |-> 0],
             down |-> [activate |-> {}, cancel |-> {}]]

NextApp ==
    \/ OnEvent
    \/ OnEventActivate
    \/ OnEventCancel
    \/ DisplayStep
    \/ \E w \in Workers :
          \/ RunAcquire(w)
          \/ RunClear(w)
          \/ RunEmitTyping(w)
          \/ RunLoop(w)
          \/ RunPressSpecial(w)
          \/ RunReleaseSpecial(w)
          \/ RunTypeTypo(w)
          \/ RunSleepTypo(w)
          \/ RunPressBackspace(w)
          \/ RunReleaseBackspace(w)
          \/ RunSleepHalf(w)
          \/ RunTypeChar(w)
          \/ RunSleep(w)
          \/ RunEmitCancelled(w)
          \/ RunEmitIdle(w)
          \/ RunFinally(w)

SpecApp == InitApp /\ [][NextApp]_vars

\* AccessibilityChecker.get_permission_error_message()
PermissionMessage == "Could not register global hotkeys"

\* AppController.start up to the end of the parsing in _set_hotkeys: the chords are
\* those of the settings loaded; any exception of hotkey_listener.start() is
\* answered with the permission guidance
ControllerStart ==
    /\ gui.pc = "idle"
    /\ gui.n = 0
    /\ \E a \in ChordStrings, c \in ChordStrings :
          /\ gui' = [gui EXCEPT
                        !.op = "start", !.n = gui.n + 1, !.a = a, !.c = c,
                        !.pc = IF SetHotkeysParses(a, c) THEN "set_activate" ELSE "idle",
                        !.result = IF SetHotkeysParses(a, c) THEN "" ELSE "ValueError"]
          /\ after_queue' = IF SetHotkeysParses(a, c) THEN after_queue
                            ELSE RootAfter(after_queue, "error", PermissionMessage)
    /\ UNCHANGED <<typing_lock, cancel_event, delay_model, typo_generator, threads,
                   status_log, last_end, display_status, error_dialog, clipboard, files,
                   listener_vars>>

\* AppController.start: keyboard.Listener(...) or self._listener.start() raises, and
\* the exception is answered with the permission guidance
StartListenerFails ==
    /\ gui.pc = "listener"
    /\ gui.n = 1
    /\ listener' \in {"None", "dead"}
    /\ gui' = [gui EXCEPT !.pc = "idle", !.result = "ListenerError"]
    /\ after_queue' = RootAfter(after_queue, "error", PermissionMessage)
    /\ UNCHANGED <<typing_lock, cancel_event, delay_model, typo_generator, threads,
                   status_log, last_end, display_status, error_dialog, clipboard, files,
                   hotkey_lock, activate_hotkey, cancel_hotkey, ev, hk>>

\* the application starting: AppController.start, then the display and the key
\* events delivered to the listener
NextStartup ==
    \/ ControllerStart
    \/ SetHotkeysActivate
    \/ SetHotkeysCancel
    \/ StartListener
    \/ StartListenerFails
    \/ DisplayStep
    \/ OnEvent
    \/ OnEventActivate
    \/ OnEventCancel

SpecStartup == InitHotkey /\ [][NextStartup]_vars

\* what the user copies while the application runs: a text, a blank text, nothing,
\* or content pyperclip cannot read
CopySamples ==
    {[kind |-> "text", text |-> <<"z">>], [kind |-> "text", text |-> <<"\n">>],
     [kind |-> "none", text |-> <<>>], [kind |-> "raises", text |-> <<>>]}

\* the user copies something else
Copy ==
    /\ clipboard' \in CopySamples \ {clipboard}
    /\ UNCHANGED <<typing_lock, cancel_event, delay_model, typo_generator, threads,
                   status_log, last_end, after_queue, display_status, error_dialog,
                   files, gui, listener_vars>>

\* the application constructed from settings without typos
InitClipboard == Init /\ gui.settings = SteadySettings /\ clipboard \in CopySamples

NextClipboard ==
    \/ Copy
    \/ OnActivate
    \/ OnCancel
    \/ DisplayStep
    \/ \E w \in Workers :
          \/ RunAcquire(w)
          \/ RunClear(w)
          \/ RunEmitTyping(w)
          \/ RunLoop(w)
          \/ RunTypeChar(w)
          \/ RunSleep(w)
          \/ RunEmitCancelled(w)
          \/ RunEmitIdle(w)
          \/ RunFinally(w)

SpecClipboard == InitClipboard /\ [][NextClipboard]_vars

----------------------------------------------------------------------------
(* Construction of a settings snapshot (src/config/config_store.py, AppSettings) *)

\* field values as Python objects; the numbers in thousandths
Num(v) == [kind |-> "num", v |-> v]
NaN == [kind |-> "nan", v |-> 0]
Inf == [kind |-> "inf", v |-> 0]
NegInf == [kind |-> "-inf", v |-> 0]
\* a str that is no numeric literal, such as "fast"
Str == [kind |-> "str", v |-> 0]
\* a str that is a numeric literal, such as "90" or "70.5"
NumStr(v) == [kind |-> "numstr", v |-> v]
NoneValue == [kind |-> "None", v |-> 0]
\* the keyword argument is not passed (the key is not in the settings file)
Absent == [kind |-> "absent", v |-> 0]
Raised(e) == [kind |-> e, v |-> 0]

Errors == {"ValueError", "TypeError", "OverflowError"}

\* int(x)
py_int(x) ==
    CASE x.kind = "num" ->
            Num(IF x.v >= 0 THEN (x.v \div 1000) * 1000 ELSE -(((-x.v) \div 1000) * 1000))
      [] x.kind = "numstr" -> IF x.v % 1000 = 0 THEN Num(x.v) ELSE Raised("ValueError")
      [] x.kind = "nan" -> Raised("ValueError")
      [] x.kind \in {"inf", "-inf"} -> Raised("OverflowError")
      [] x.kind = "str" -> Raised("ValueError")
      [] OTHER -> Raised("TypeError")

\* float(x)
py_float(x) ==
    CASE x.kind \in {"num", "nan", "inf", "-inf"} -> x
      [] x.kind = "numstr" -> Num(x.v)
      [] x.kind = "str" -> Raised("ValueError")
      [] OTHER -> Raised("TypeError")

\* a < b on numbers: every comparison with NaN is false
Lt(a, b) ==
    CASE a.kind = "nan" \/ b.kind = "nan" -> FALSE
      [] a.kind = "-inf" -> b.kind # "-inf"
      [] a.kind = "inf" -> FALSE
      [] b.kind = "inf" -> TRUE
      [] b.kind = "-inf" -> FALSE
      [] OTHER -> a.v < b.v

\* max(a, b) with the second argument dropped in place of the comparison
py_maxSecond(a, b) == b

\* max(a, b) and min(a, b): the first argument unless the second is strictly
\* larger (smaller)
py_max(a, b) == IF Lt(a, b) THEN b ELSE a

py_min(a, b) == IF Lt(b, a) THEN b ELSE a

\* chord strings as sequences of characters
ChordStr(s) == [kind |-> "str", s |-> s]
NotAStr == [kind |-> "None", s |-> <<>>]
AbsentChord == [kind |-> "absent", s |-> <<>>]

DEFAULT_ACTIVATE_HOTKEY(IS_MACOS) ==
    IF IS_MACOS
    THEN ChordStr(<<"<", "c", "m", "d", ">", "+", "<", "s", "h", "i", "f", "t", ">", "+", "k">>)
    ELSE ChordStr(<<"<", "c", "t", "r", "l", ">", "+", "<", "s", "h", "i", "f", "t", ">", "+", "k">>)

DEFAULT_CANCEL_HOTKEY == ChordStr(<<"<", "e", "s", "c", ">">>)

\* the dataclass __init__: a field that is not passed takes its default
FieldDefaults(raw) ==
    [typing_speed_wpm |-> IF raw.typing_speed_wpm = Absent THEN Num(70000)
                          ELSE raw.typing_speed_wpm,
     speed_variance   |-> IF raw.speed_variance = Absent THEN Num(300)
                          ELSE raw.speed_variance,
     typo_rate        |-> IF raw.typo_rate = Absent THEN Num(15) ELSE raw.typo_rate,
     activate_hotkey  |-> IF raw.activate_hotkey = AbsentChord
                          THEN DEFAULT_ACTIVATE_HOTKEY(raw.IS_MACOS)
                          ELSE raw.activate_hotkey,
     cancel_hotkey    |-> IF raw.cancel_hotkey = AbsentChord THEN DEFAULT_CANCEL_HOTKEY
                          ELSE raw.cancel_hotkey,
     min_delay_ms     |-> IF raw.min_delay_ms = Absent THEN Num(20000)
                          ELSE raw.min_delay_ms,
     max_delay_ms     |-> IF raw.max_delay_ms = Absent THEN Num(300000)
                          ELSE raw.max_delay_ms,
     IS_MACOS         |-> raw.IS_MACOS]

\* not isinstance(chord, str) or not chord.strip()
ChordInvalid(chord) == chord.kind # "str" \/ IsBlank(chord.s)

\* AppSettings.__post_init__: the exception it raises ("" when it returns) and the
\* fields it leaves
post_init(self) ==
    LET wpm      == py_int(self.typing_speed_wpm)
        variance == py_float(self.speed_variance)
        typo     == py_float(self.typo_rate)
        min_d    == py_float(self.min_delay_ms)
        max_d    == py_float(self.max_delay_ms)
        s1 == [self EXCEPT !.typing_speed_wpm = py_max(Num(30000), py_min(Num(120000), wpm))]
        s2 == [s1 EXCEPT !.speed_variance = py_max(Num(0), py_min(Num(1000), variance))]
        s3 == [s2 EXCEPT !.typo_rate = py_max(Num(0), py_min(Num(100), typo))]
        s4 == [s3 EXCEPT !.min_delay_ms = py_max(Num(1000), min_d)]
        s5 == [s4 EXCEPT !.max_delay_ms = py_max(s4.min_delay_ms, max_d)]
        s6 == [s5 EXCEPT !.activate_hotkey =
                            IF ChordInvalid(s5.activate_hotkey)
                            THEN DEFAULT_ACTIVATE_HOTKEY(self.IS_MACOS)
                            ELSE s5.activate_hotkey]
        s7 == [s6 EXCEPT !.cancel_hotkey =
                            IF ChordInvalid(s6.cancel_hotkey) THEN DEFAULT_CANCEL_HOTKEY
                            ELSE s6.cancel_hotkey]
    IN  CASE wpm.kind \in Errors      -> [raised |-> wpm.kind, self |-> self]
          [] variance.kind \in Errors -> [raised |-> variance.kind, self |-> s1]
          [] typo.kind \in Errors     -> [raised |-> typo.kind, self |-> s2]
          [] min_d.kind \in Errors    -> [raised |-> min_d.kind, self |-> s3]
          [] max_d.kind \in Errors    -> [raised |-> max_d.kind, self |-> s4]
          [] OTHER                    -> [raised |-> "", self |-> s7]

\* the values the arguments of AppSettings(...) are drawn from: in range, out of
\* range on either side, not finite, not a number, not passed
WpmInputs ==
    {Absent, Num(90000), Num(29999), Num(120500), NaN, Inf, Str, NumStr(70500),
     NoneValue}
VarianceInputs == {Absent, Num(1500), Num(-100), NaN, Str}
TypoInputs == {Absent, Num(101), Num(-1), NaN, NoneValue}
MinDelayInputs == {Absent, Num(0), Num(500000), NaN, Inf, Str}
MaxDelayInputs == {Absent, Num(10000), Num(500), NaN, NegInf, NoneValue}
ActivateInputs == {AbsentChord, ChordStr(<<"k">>), ChordStr(<<" ", "\t">>), NotAStr}
CancelInputs == {AbsentChord, ChordStr(<<>>), ChordStr(<<" ", "q">>)}

RawSettings ==
    [typing_speed_wpm : WpmInputs, speed_variance : VarianceInputs,
     typo_rate : TypoInputs, activate_hotkey : ActivateInputs,
     cancel_hotkey : CancelInputs, min_delay_ms : MinDelayInputs,
     max_delay_ms : MaxDelayInputs, IS_MACOS : BOOLEAN]

\* AppSettings(**a): gui.a holds the arguments, gui.settings the snapshot
\* constructed, gui.result the exception raised
Construct ==
    /\ gui.pc = "construct"
    /\ LET r == post_init(FieldDefaults(gui.a)) IN
          gui' = [gui EXCEPT !.pc = IF r.raised = "" THEN "constructed" ELSE "raised",
                             !.settings = IF r.raised = "" THEN r.self ELSE gui.settings,
                             !.result = r.raised]
    /\ UNCHANGED <<typing_lock, cancel_event, delay_model, typo_generator, threads,
                   status_log, last_end, after_queue, display_status, error_dialog,
                   clipboard, files, listener_vars>>

\* a call of AppSettings(...) about to be made, by ConfigStore._read_settings or
\* by the settings panel
InitConstruct ==
    /\ \E raw \in RawSettings :
          gui = [pc |-> "construct", op |-> "AppSettings", n |-> 0, settings |-> None,
                 a |-> raw, c |-> <<>>, result |-> ""]
    /\ typing_lock = 0
    /\ cancel_event = FALSE
    /\ delay_model = DelayModel(DefaultSettings.typing_speed_wpm,
                                DefaultSettings.speed_variance,
                                DefaultSettings.min_delay_ms, DefaultSettings.max_delay_ms)
    /\ typo_generator = TypoGenerator(DefaultSettings.typo_rate)
    /\ threads = [w \in Workers |-> FreeThread]
    /\ status_log = <<>>
    /\ last_end = [session |-> "", dropped |-> FALSE]
    /\ after_queue = <<>>
    /\ display_status = "idle"
    /\ error_dialog = ""
    /\ files = NoFiles
    /\ clipboard = [kind |-> "none", text |-> <<>>]
    /\ listener = "None"
    /\ hotkey_lock = ""
    /\ activate_hotkey = NoHotKey
    /\ cancel_hotkey = NoHotKey
    /\ ev = [pc |-> "idle", kind |-> "", key |-> "", n |-> 0, op |-> ""]
    /\ hk = [events |-> 0, created |-> 0,
             fired |-> [activate |-> 0, cancel |-> 0],
             down |-> [activate |-> {}, cancel |-> {}]]

SpecConstruct == InitConstruct /\ [][Construct]_vars

----------------------------------------------------------------------------
(* ConfigStore (src/config/config_store.py) *)

\* json.dump: a character of a string as it is written
json_escape(c) ==
    CASE c = "\t" -> "\\t"
      [] c = "\"" -> "\\\""
      [] c = "\\" -> "\\\\"
      [] c = "e_acute" -> "\\u00e9"
      [] OTHER -> c

\* json.load taking the characters of a string as they stand in the file
json_unescapeNone(e) == e

\* json.load: the character an escape sequence stands for
json_unescape(e) ==
    CASE e = "\\t" -> "\t"
      [] e = "\\\"" -> "\""
      [] e = "\\\\" -> "\\"
      [] e = "\\u00e9" -> "e_acute"
      [] OTHER -> e

\* json.dump of one field value: a number, one of the literals Infinity, -Infinity
\* and NaN, a string, or null
json_dumps(x) ==
    CASE x.kind = "num"  -> [json |-> "number", v |-> x.v, s |-> <<>>]
      [] x.kind = "inf"  -> [json |-> "Infinity", v |-> 0, s |-> <<>>]
      [] x.kind = "-inf" -> [json |-> "-Infinity", v |-> 0, s |-> <<>>]
      [] x.kind = "nan"  -> [json |-> "NaN", v |-> 0, s |-> <<>>]
      [] x.kind = "str" /\ "s" \in DOMAIN x
            -> [json |-> "string", v |-> 0, s |-> [n \in DOMAIN x.s |-> json_escape(x.s[n])]]
      [] OTHER -> [json |-> "null", v |-> 0, s |-> <<>>]

NumericFields ==
    {"typing_speed_wpm", "speed_variance", "typo_rate", "min_delay_ms", "max_delay_ms"}

ChordFields == {"activate_hotkey", "cancel_hotkey"}

\* json.load of the value of the key f, as the field f of AppSettings receives it
json_loads(f, j) ==
    IF f \in NumericFields
    THEN CASE j.json = "number"    -> Num(j.v)
           [] j.json = "Infinity"  -> Inf
           [] j.json = "-Infinity" -> NegInf
           [] j.json = "NaN"       -> NaN
           [] j.json = "string"    -> Str
           [] OTHER                -> NoneValue
    ELSE IF j.json = "string"
         THEN ChordStr([n \in DOMAIN j.s |-> json_unescape(j.s[n])])
         ELSE NotAStr

\* asdict(settings) written by json.dump: the seven fields
AsDictJson(settings) ==
    [typing_speed_wpm |-> json_dumps(settings.typing_speed_wpm),
     speed_variance   |-> json_dumps(settings.speed_variance),
     typo_rate        |-> json_dumps(settings.typo_rate),
     activate_hotkey  |-> json_dumps(settings.activate_hotkey),
     cancel_hotkey    |-> json_dumps(settings.cancel_hotkey),
     min_delay_ms     |-> json_dumps(settings.min_delay_ms),
     max_delay_ms     |-> json_dumps(settings.max_delay_ms)]

\* the keyword argument f of AppSettings(**filtered)
Filtered(data, f) ==
    IF f \in DOMAIN data THEN json_loads(f, data[f])
    ELSE IF f \in ChordFields THEN AbsentChord ELSE Absent

\* ConfigStore._read_settings: json.load, the keys that are fields, AppSettings(...)
read_settings(data, IS_MACOS) ==
    post_init(FieldDefaults(
        [typing_speed_wpm |-> Filtered(data, "typing_speed_wpm"),
         speed_variance   |-> Filtered(data, "speed_variance"),
         typo_rate        |-> Filtered(data, "typo_rate"),
         activate_hotkey  |-> Filtered(data, "activate_hotkey"),
         cancel_hotkey    |-> Filtered(data, "cancel_hotkey"),
         min_delay_ms     |-> Filtered(data, "min_delay_ms"),
         max_delay_ms     |-> Filtered(data, "max_delay_ms"),
         IS_MACOS         |-> IS_MACOS]))

\* AppSettings() on the platform
DefaultAppSettings(IS_MACOS) ==
    post_init(FieldDefaults(
        [typing_speed_wpm |-> Absent, speed_variance |-> Absent, typo_rate |-> Absent,
         activate_hotkey |-> AbsentChord, cancel_hotkey |-> AbsentChord,
         min_delay_ms |-> Absent, max_delay_ms |-> Absent,
         IS_MACOS |-> IS_MACOS])).self

\* the settings values save is called with: snapshots constructed from
\* arguments passed or not passed, with an infinite delay floor and with chord
\* strings holding a tab, a quote, or a letter outside ASCII
SavedSettings(IS_MACOS) ==
    {post_init(FieldDefaults(raw)).self :
        raw \in [typing_speed_wpm : {Absent, Num(90000)},
                 speed_variance   : {Num(500)},
                 typo_rate        : {Num(50)},
                 activate_hotkey  : {AbsentChord, ChordStr(<<"\t", "k">>),
                                     ChordStr(<<"e_acute">>)},
                 cancel_hotkey    : {AbsentChord, ChordStr(<<"\"", "q", "\\">>)},
                 min_delay_ms     : {Num(50000), Inf},
                 max_delay_ms     : {Num(500000)},
                 IS_MACOS         : {IS_MACOS}]}

\* a file as it is on disk: complete once json.dump and the newline are written;
\* of is history, the settings the content was written from
File(data, complete, of) ==
    [exists |-> TRUE, data |-> data, complete |-> complete, of |-> of]

\* save(settings): mkdir, asdict, tempfile.mkstemp in the directory of the file
Save ==
    /\ gui.pc = "idle"
    /\ gui.n < MaxCalls
    /\ \E settings \in SavedSettings(gui.settings.IS_MACOS) :
          gui' = [gui EXCEPT !.pc = "write", !.op = "save", !.n = gui.n + 1,
                             !.a = settings, !.result = ""]
    /\ files' = [files EXCEPT !.tmp = File(<<>>, FALSE, gui'.a)]
    /\ UNCHANGED <<typing_lock, cancel_event, delay_model, typo_generator, threads,
                   status_log, last_end, after_queue, display_status, error_dialog,
                   clipboard, listener_vars>>

\* save: json.dump(data, fh); fh.write("\n"); the file is closed
SaveWrite ==
    /\ gui.pc = "write"
    /\ files' = [files EXCEPT !.tmp = File(AsDictJson(gui.a), TRUE, gui.a)]
    /\ gui' = [gui EXCEPT !.pc = "replace"]
    /\ UNCHANGED <<typing_lock, cancel_event, delay_model, typo_generator, threads,
                   status_log, last_end, after_queue, display_status, error_dialog,
                   clipboard, listener_vars>>

\* SaveWriteFails without the os.unlink of the except clause
SaveWriteFailsNoCleanup ==
    /\ gui.pc = "write"
    /\ files' = files
    /\ gui' = [gui EXCEPT !.pc = "idle", !.result = "OSError"]
    /\ UNCHANGED <<typing_lock, cancel_event, delay_model, typo_generator, threads,
                   status_log, last_end, after_queue, display_status, error_dialog,
                   clipboard, listener_vars>>

\* save: the write raises with the temporary file partly written; the except
\* clause unlinks the temporary file and raises again
SaveWriteFails ==
    /\ gui.pc = "write"
    /\ files' = [files EXCEPT !.tmp = NoFile]
    /\ gui' = [gui EXCEPT !.pc = "idle", !.result = "OSError"]
    /\ UNCHANGED <<typing_lock, cancel_event, delay_model, typo_generator, threads,
                   status_log, last_end, after_queue, display_status, error_dialog,
                   clipboard, listener_vars>>

\* save: os.replace(tmp_path, self.config_path), and save returns
SaveReplace ==
    /\ gui.pc = "replace"
    /\ files' = [config |-> files.tmp, tmp |-> NoFile]
    /\ gui' = [gui EXCEPT !.pc = "idle"]
    /\ UNCHANGED <<typing_lock, cancel_event, delay_model, typo_generator, threads,
                   status_log, last_end, after_queue, display_status, error_dialog,
                   clipboard, listener_vars>>

\* save: os.replace raises; the except clause unlinks the temporary file and
\* raises again
SaveReplaceFails ==
    /\ gui.pc = "replace"
    /\ files' = [files EXCEPT !.tmp = NoFile]
    /\ gui' = [gui EXCEPT !.pc = "idle", !.result = "OSError"]
    /\ UNCHANGED <<typing_lock, cancel_event, delay_model, typo_generator, threads,
                   status_log, last_end, after_queue, display_status, error_dialog,
                   clipboard, listener_vars>>

\* the user adds a key that is no field of AppSettings to the settings file
EditFile ==
    /\ gui.pc = "idle"
    /\ files.config.exists
    /\ "theme" \notin DOMAIN files.config.data
    /\ files' = [files EXCEPT !.config.data =
                    [k \in DOMAIN files.config.data \cup {"theme"} |->
                        IF k = "theme" THEN json_dumps(ChordStr(<<"d", "a", "r", "k">>))
                        ELSE files.config.data[k]]]
    /\ UNCHANGED <<typing_lock, cancel_event, delay_model, typo_generator, threads,
                   status_log, last_end, after_queue, display_status, error_dialog,
                   clipboard, gui, listener_vars>>

\* load(): the settings file if it exists, else AppSettings() (there is no
\* project-level config/default_settings.json); gui.settings holds the value
\* returned, gui.result the exception raised
Load ==
    /\ gui.pc = "idle"
    /\ LET r == IF files.config.exists
                THEN read_settings(files.config.data, gui.settings.IS_MACOS)
                ELSE [raised |-> "", self |-> DefaultAppSettings(gui.settings.IS_MACOS)]
       IN  gui' = [gui EXCEPT !.op = "load", !.result = r.raised,
                              !.settings = IF r.raised = "" THEN r.self ELSE gui.settings]
    /\ UNCHANGED <<typing_lock, cancel_event, delay_model, typo_generator, threads,
                   status_log, last_end, after_queue, display_status, error_dialog,
                   clipboard, files, listener_vars>>

\* the store of a process on either platform, no settings file written yet
InitConfig ==
    /\ \E IS_MACOS \in BOOLEAN :
          gui = [pc |-> "idle", op |-> "", n |-> 0,
                 settings |-> DefaultAppSettings(IS_MACOS),
                 a |-> <<>>, c |-> <<>>, result |-> ""]
    /\ delay_model = DelayModel(DefaultSettings.typing_speed_wpm,
                                DefaultSettings.speed_variance,
                                DefaultSettings.min_delay_ms, DefaultSettings.max_delay_ms)
    /\ typo_generator = TypoGenerator(DefaultSettings.typo_rate)
    /\ typing_lock = 0
    /\ cancel_event = FALSE
    /\ threads = [w \in Workers |-> FreeThread]
    /\ status_log = <<>>
    /\ last_end = [session |-> "", dropped |-> FALSE]
    /\ after_queue = <<>>
    /\ display_status = "idle"
    /\ error_dialog = ""
    /\ files = NoFiles
    /\ clipboard = [kind |-> "none", text |-> <<>>]
    /\ listener = "None"
    /\ hotkey_lock = ""
    /\ activate_hotkey = NoHotKey
    /\ cancel_hotkey = NoHotKey
    /\ ev = [pc |-> "idle", kind |-> "", key |-> "", n |-> 0, op |-> ""]
    /\ hk = [events |-> 0, created |-> 0,
             fired |-> [activate |-> 0, cancel |-> 0],
             down |-> [activate |-> {}, cancel |-> {}]]

NextConfig ==
    \/ Save
    \/ SaveWrite
    \/ SaveWriteFails
    \/ SaveReplace
    \/ SaveReplaceFails
    \/ EditFile
    \/ Load

SpecConfig == InitConfig /\ [][NextConfig]_vars

----------------------------------------------------------------------------
(* AppController._on_settings_changed (src/app_controller.py) *)

\* a chord string kept as parts, as the characters json.dump writes
JoinPlus(parts) ==
    IF parts = <<>> THEN <<>>
    ELSE [n \in 1..(2 * Len(parts) - 1) |->
             IF n % 2 = 1 THEN parts[(n + 1) \div 2] ELSE "+"]

\* the snapshot of the engine's units as the AppSettings value save receives
AsAppSettings(settings) ==
    [typing_speed_wpm |-> Num(settings.typing_speed_wpm * 1000),
     speed_variance   |-> Num(settings.speed_variance * 10),
     typo_rate        |-> Num(settings.typo_rate),
     activate_hotkey  |-> ChordStr(JoinPlus(settings.activate_hotkey)),
     cancel_hotkey    |-> ChordStr(JoinPlus(settings.cancel_hotkey)),
     min_delay_ms     |-> Num(settings.min_delay_ms * 1000),
     max_delay_ms     |-> Num(settings.max_delay_ms * 1000)]

\* a snapshot with chord strings
WithChords(s, a, c) ==
    [typing_speed_wpm |-> s.typing_speed_wpm, speed_variance |-> s.speed_variance,
     typo_rate |-> s.typo_rate, min_delay_ms |-> s.min_delay_ms,
     max_delay_ms |-> s.max_delay_ms, activate_hotkey |-> a, cancel_hotkey |-> c]

\* the snapshots the settings panel hands over
NewSettings ==
    {WithChords(s, a, c) : s \in SettingsChoices, a \in ChordStrings, c \in ChordStrings}

\* _on_settings_changed(new): old_settings = self._settings; self._settings = new;
\* self._config_store.save(new), which returns
\* g is the state of the display thread's objects when the handler is called
ChangeBeginIn(g, news) ==
    /\ g.pc = "idle"
    /\ g.n < MaxCalls
    /\ \E new \in news :
          /\ gui' = [g EXCEPT !.pc = "change_delay", !.op = "change", !.n = g.n + 1,
                              !.old = g.settings, !.new = new, !.settings = new,
                              !.result = ""]
          /\ files' = [config |-> File(AsDictJson(AsAppSettings(new)), TRUE,
                                       AsAppSettings(new)),
                       tmp |-> NoFile]
    /\ UNCHANGED <<typing_lock, cancel_event, delay_model, typo_generator, threads,
                   status_log, last_end, after_queue, display_status, error_dialog,
                   clipboard, listener_vars>>

ChangeBeginFrom(news) == ChangeBeginIn(gui, news)

ChangeBegin == ChangeBeginFrom(NewSettings)

\* _on_settings_changed(new): self._config_store.save(new) raises, which ends
\* the handler
ChangeSaveFails ==
    /\ gui.pc = "idle"
    /\ gui.n < MaxCalls
    /\ \E new \in NewSettings :
          gui' = [gui EXCEPT !.op = "change", !.n = gui.n + 1, !.old = gui.settings,
                             !.new = new, !.settings = new, !.result = "OSError"]
    /\ UNCHANGED <<typing_lock, cancel_event, delay_model, typo_generator, threads,
                   status_log, last_end, after_queue, display_status, error_dialog,
                   clipboard, files, listener_vars>>

\* self._engine.update_settings(new), first statement
ChangeDelay ==
    /\ gui.pc = "change_delay"
    /\ delay_model' = DelayModel(gui.new.typing_speed_wpm, gui.new.speed_variance,
                                 gui.new.min_delay_ms, gui.new.max_delay_ms)
    /\ gui' = [gui EXCEPT !.pc = "change_typo"]
    /\ UNCHANGED <<typing_lock, cancel_event, typo_generator, threads, status_log,
                   last_end, after_queue, display_status, error_dialog, clipboard,
                   files, listener_vars>>

\* self._engine.update_settings(new), second statement, and the comparison of the
\* chord strings: the handler is over when neither has changed
ChangeTypo ==
    /\ gui.pc = "change_typo"
    /\ typo_generator' = TypoGenerator(gui.new.typo_rate)
    /\ gui' = [gui EXCEPT !.pc =
                  IF gui.new.activate_hotkey # gui.old.activate_hotkey
                        \/ gui.new.cancel_hotkey # gui.old.cancel_hotkey
                  THEN "change_rebind" ELSE "idle"]
    /\ UNCHANGED <<typing_lock, cancel_event, delay_model, threads, status_log,
                   last_end, after_queue, display_status, error_dialog, clipboard,
                   files, listener_vars>>

\* the second rebind of the except clause, with the old chord strings
RebindOld(g) ==
    IF SetHotkeysParses(g.old.activate_hotkey, g.old.cancel_hotkey)
    THEN /\ gui' = [g EXCEPT !.pc = "set_activate", !.a = g.old.activate_hotkey,
                             !.c = g.old.cancel_hotkey]
         /\ hotkey_lock' = "gui"
    ELSE /\ gui' = [g EXCEPT !.pc = "idle"]
         /\ hotkey_lock' = ""

\* self._hotkey_listener.rebind(new chords) up to the end of the parsing; on
\* ValueError the except clause: show_error, self._settings = AppSettings(the new
\* numbers, the old chords), and rebind(old chords) up to the end of its parsing
ChangeRebind ==
    /\ gui.pc = "change_rebind"
    /\ hotkey_lock = ""
    /\ IF SetHotkeysParses(gui.new.activate_hotkey, gui.new.cancel_hotkey)
       THEN /\ gui' = [gui EXCEPT !.op = "rebind", !.pc = "set_activate",
                                  !.a = gui.new.activate_hotkey,
                                  !.c = gui.new.cancel_hotkey]
            /\ hotkey_lock' = "gui"
            /\ UNCHANGED after_queue
       ELSE /\ Len(after_queue) < MaxQueue
            /\ after_queue' = RootAfter(after_queue, "error", "Invalid hotkey format")
            /\ RebindOld([gui EXCEPT
                             !.op = "rebind", !.result = "ValueError",
                             !.settings = WithChords(gui.new, gui.old.activate_hotkey,
                                                     gui.old.cancel_hotkey)])
    /\ UNCHANGED <<typing_lock, cancel_event, delay_model, typo_generator, threads,
                   status_log, last_end, display_status, error_dialog, clipboard,
                   files, listener, activate_hotkey, cancel_hotkey, ev, hk>>

\* the running application under the default settings, with the chords <ctrl>+k
\* and <esc> in the settings and in the listener
InitChange ==
    /\ typing_lock = 0
    /\ cancel_event = FALSE
    /\ delay_model = DelayModel(DefaultSettings.typing_speed_wpm,
                                DefaultSettings.speed_variance,
                                DefaultSettings.min_delay_ms,
                                DefaultSettings.max_delay_ms)
    /\ typo_generator = TypoGenerator(DefaultSettings.typo_rate)
    /\ gui = [pc |-> "idle", op |-> "start", n |-> 0,
              settings |-> WithChords(DefaultSettings, <<"<ctrl>", "k">>, <<"<esc>">>),
              old |-> WithChords(DefaultSettings, <<"<ctrl>", "k">>, <<"<esc>">>),
              new |-> WithChords(DefaultSettings, <<"<ctrl>", "k">>, <<"<esc>">>),
              a |-> <<>>, c |-> <<>>, result |-> ""]
    /\ threads = [w \in Workers |-> FreeThread]
    /\ status_log = <<>>
    /\ last_end = [session |-> "", dropped |-> FALSE]
    /\ after_queue = <<>>
    /\ display_status = "idle"
    /\ error_dialog = ""
    /\ files = NoFiles
    /\ clipboard = [kind |-> "none", text |-> <<>>]
    /\ listener = "alive"
    /\ hotkey_lock = ""
    /\ activate_hotkey = HotKey(HotKeyParse(<<"<ctrl>", "k">>).keys, "activate", 0, "start")
    /\ cancel_hotkey = HotKey(HotKeyParse(<<"<esc>">>).keys, "cancel", 0, "start")
    /\ ev = [pc |-> "idle", kind |-> "", key |-> "", n |-> 0, op |-> ""]
    /\ hk = [events |-> 0, created |-> 1,
             fired |-> [activate |-> 0, cancel |-> 0],
             down |-> [activate |-> {}, cancel |-> {}]]

\* settings changes made in the panel
NextChange ==
    \/ ChangeBegin
    \/ ChangeSaveFails
    \/ ChangeDelay
    \/ ChangeTypo
    \/ ChangeRebind
    \/ SetHotkeysActivate
    \/ SetHotkeysCancel
    \/ RebindUnlock
    \/ DisplayStep

SpecChange == InitChange /\ [][NextChange]_vars

----------------------------------------------------------------------------
(* MainWindow.show_error called on the event-delivery thread (src/gui/main_window.py) *)

\* _on_press / _on_release: the activate matcher fires and _on_activate reaches
\* self._gui.show_error(...). With a threaded Tcl, root.after(...) called on another
\* thread than the display thread hands the call over to the display thread and
\* waits until that thread has run it; the listener mutex stays held
OnEventActivateWaits ==
    /\ ev.pc = "activate"
    /\ DeliverFires(activate_hotkey, ev.kind, ev.key)
    /\ ClipboardRead(clipboard).error # ""
    /\ activate_hotkey' = Deliver(activate_hotkey, ev.kind, ev.key)
    /\ hk' = [hk EXCEPT
                 !.down.activate = Reported(@, activate_hotkey.keys, ev.kind,
                                            ListenerCanonical(ev.key)),
                 !.fired.activate = @ + 1]
    /\ ev' = [ev EXCEPT !.pc = "after", !.n = activate_hotkey.n,
                        !.op = activate_hotkey.op]
    /\ UNCHANGED <<engine_vars, files, gui, listener, hotkey_lock, cancel_hotkey>>

\* the display thread, between two callbacks of its main loop, runs the call that
\* was handed over, and root.after(...) returns on the event-delivery thread
AfterServed ==
    /\ ev.pc = "after"
    /\ gui.pc = "idle"
    /\ Len(after_queue) < MaxQueue
    /\ after_queue' = RootAfter(after_queue, "error", ClipboardRead(clipboard).error)
    /\ ev' = [ev EXCEPT !.pc = "cancel"]
    /\ UNCHANGED <<typing_lock, cancel_event, delay_model, typo_generator, threads,
                   status_log, last_end, display_status, error_dialog, clipboard,
                   files, gui, listener, hotkey_lock, activate_hotkey, cancel_hotkey,
                   hk>>

\* settings changes on the display thread while the listener delivers key events
NextThreads ==
    \/ ChangeBegin
    \/ ChangeDelay
    \/ ChangeTypo
    \/ ChangeRebind
    \/ SetHotkeysActivate
    \/ SetHotkeysCancel
    \/ RebindUnlock
    \/ DisplayStep
    \/ OnEvent
    \/ OnEventActivate
    \/ OnEventActivateWaits
    \/ AfterServed
    \/ OnEventCancel

SpecThreads == InitChange /\ [][NextThreads]_vars

\* self._on_status_change(status) on a worker thread: MainWindow.set_status calls
\* root.after(...), which the display thread runs between two callbacks of its main
\* loop while the worker waits
RunEmitTypingServed(w) == gui.pc = "idle" /\ RunEmitTyping(w)

RunEmitCancelledServed(w) == gui.pc = "idle" /\ RunEmitCancelled(w)

RunEmitIdleServed(w) == gui.pc = "idle" /\ RunEmitIdle(w)

\* the settings change of the panel: the two chords exchanged
ExchangedChords == {WithChords(SteadySettings, <<"<esc>">>, <<"<ctrl>", "k">>)}

ChangeBeginExchanged == ChangeBeginFrom(ExchangedChords)

\* the running application after an activation with the text "z" on the clipboard,
\* whose worker thread has been started, and with the clipboard emptied since
InitSession ==
    /\ typing_lock = 0
    /\ cancel_event = FALSE
    /\ delay_model = DelayModel(SteadySettings.typing_speed_wpm,
                                SteadySettings.speed_variance,
                                SteadySettings.min_delay_ms,
                                SteadySettings.max_delay_ms)
    /\ typo_generator = TypoGenerator(SteadySettings.typo_rate)
    /\ gui = [pc |-> "idle", op |-> "start", n |-> 0,
              settings |-> WithChords(SteadySettings, <<"<ctrl>", "k">>, <<"<esc>">>),
              old |-> WithChords(SteadySettings, <<"<ctrl>", "k">>, <<"<esc>">>),
              new |-> WithChords(SteadySettings, <<"<ctrl>", "k">>, <<"<esc>">>),
              a |-> <<>>, c |-> <<>>, result |-> ""]
    /\ threads = [w \in Workers |-> IF w = 1 THEN NewThread(<<"z">>) ELSE FreeThread]
    /\ status_log = <<>>
    /\ last_end = [session |-> "", dropped |-> FALSE]
    /\ after_queue = <<>>
    /\ display_status = "idle"
    /\ error_dialog = ""
    /\ files = NoFiles
    /\ clipboard = [kind |-> "none", text |-> <<>>]
    /\ listener = "alive"
    /\ hotkey_lock = ""
    /\ activate_hotkey = HotKey(HotKeyParse(<<"<ctrl>", "k">>).keys, "activate", 0, "start")
    /\ cancel_hotkey = HotKey(HotKeyParse(<<"<esc>">>).keys, "cancel", 0, "start")
    /\ ev = [pc |-> "idle", kind |-> "", key |-> "", n |-> 0, op |-> ""]
    /\ hk = [events |-> 0, created |-> 1,
             fired |-> [activate |-> 0, cancel |-> 0],
             down |-> [activate |-> {}, cancel |-> {}]]

\* a session, the key events and a settings change, with every call of root.after
\* run by the display thread
NextSession ==
    \/ ChangeBeginExchanged
    \/ ChangeDelay
    \/ ChangeTypo
    \/ ChangeRebind
    \/ SetHotkeysActivate
    \/ SetHotkeysCancel
    \/ RebindUnlock
    \/ DisplayStep
    \/ OnEvent
    \/ OnEventActivate
    \/ OnEventActivateWaits
    \/ AfterServed
    \/ OnEventCancel
    \/ \E w \in Workers :
          \/ RunAcquire(w)
          \/ RunClear(w)
          \/ RunEmitTypingServed(w)
          \/ RunLoop(w)
          \/ RunTypeChar(w)
          \/ RunSleep(w)
          \/ RunEmitCancelledServed(w)
          \/ RunEmitIdleServed(w)
          \/ RunFinally(w)

SpecSession == InitSession /\ [][NextSession]_vars

----------------------------------------------------------------------------
(* SettingsPanel (src/gui/settings_panel.py) *)

\* the texts typed into the activate entry, and the positions of the speed slider
EntryTexts == {<<"<ctrl>", "k">>, <<"<esc>">>, <<"k", "K">>}

SliderSpeeds == {DefaultSettings.typing_speed_wpm, SteadySettings.typing_speed_wpm}

\* _notify_change: self._debounce_id = None; updated = AppSettings(the widgets'
\* values); self._on_changed(updated), which is MainWindow._handle_settings_changed
\* and AppController._on_settings_changed up to the return of save
NotifyChange(g) == ChangeBeginIn([g EXCEPT !.debounce_id = 0], {g.widgets})

\* the user types into the activate entry; no callback is bound to the keys
EntryEdited ==
    /\ gui.pc = "idle"
    /\ \E text \in EntryTexts \ {gui.widgets.activate_hotkey} :
          gui' = [gui EXCEPT !.widgets.activate_hotkey = text]
    /\ UNCHANGED <<engine_vars, files, listener_vars>>

\* <FocusOut> or <Return> on an entry: _schedule_notify cancels the timer whose id
\* it holds and starts a new one; timers are the timers of after(100, ...) that
\* have neither fired nor been cancelled
ScheduleNotify ==
    /\ gui.pc = "idle"
    /\ gui.next_id <= MaxTimers
    /\ gui' = [gui EXCEPT
                  !.timers = (IF gui.debounce_id # 0 THEN @ \ {gui.debounce_id} ELSE @)
                                \cup {gui.next_id},
                  !.debounce_id = gui.next_id,
                  !.next_id = @ + 1]
    /\ UNCHANGED <<engine_vars, files, listener_vars>>

\* the speed slider moves: _on_speed_changed calls _notify_change at once
SpeedChanged ==
    /\ \E speed \in SliderSpeeds \ {gui.widgets.typing_speed_wpm} :
          NotifyChange([gui EXCEPT !.widgets.typing_speed_wpm = speed])

\* a timer of after(100, self._notify_change) fires; delayed is history, the
\* number of notifications made by timers
TimerFires ==
    /\ \E id \in gui.timers :
          NotifyChange([gui EXCEPT !.timers = @ \ {id}, !.delayed = @ + 1])

\* the Reset button: update_settings(_DEFAULT_SETTINGS) and
\* self._on_changed(_DEFAULT_SETTINGS)
ResetDefaults ==
    /\ ChangeBeginIn([gui EXCEPT !.widgets = WithChords(DefaultSettings,
                                                        <<"<ctrl>", "k">>, <<"<esc>">>)],
                     {WithChords(DefaultSettings, <<"<ctrl>", "k">>, <<"<esc>">>)})

\* the running application with the panel showing the settings in force
InitPanel ==
    /\ typing_lock = 0
    /\ cancel_event = FALSE
    /\ delay_model = DelayModel(DefaultSettings.typing_speed_wpm,
                                DefaultSettings.speed_variance,
                                DefaultSettings.min_delay_ms,
                                DefaultSettings.max_delay_ms)
    /\ typo_generator = TypoGenerator(DefaultSettings.typo_rate)
    /\ gui = [pc |-> "idle", op |-> "start", n |-> 0,
              settings |-> WithChords(DefaultSettings, <<"<ctrl>", "k">>, <<"<esc>">>),
              old |-> WithChords(DefaultSettings, <<"<ctrl>", "k">>, <<"<esc>">>),
              new |-> WithChords(DefaultSettings, <<"<ctrl>", "k">>, <<"<esc>">>),
              a |-> <<>>, c |-> <<>>, result |-> "",
              widgets |-> WithChords(DefaultSettings, <<"<ctrl>", "k">>, <<"<esc>">>),
              debounce_id |-> 0, timers |-> {}, next_id |-> 1, delayed |-> 0]
    /\ threads = [w \in Workers |-> FreeThread]
    /\ status_log = <<>>
    /\ last_end = [session |-> "", dropped |-> FALSE]
    /\ after_queue = <<>>
    /\ display_status = "idle"
    /\ error_dialog = ""
    /\ files = NoFiles
    /\ clipboard = [kind |-> "none", text |-> <<>>]
    /\ listener = "alive"
    /\ hotkey_lock = ""
    /\ activate_hotkey = HotKey(HotKeyParse(<<"<ctrl>", "k">>).keys, "activate", 0, "start")
    /\ cancel_hotkey = HotKey(HotKeyParse(<<"<esc>">>).keys, "cancel", 0, "start")
    /\ ev = [pc |-> "idle", kind |-> "", key |-> "", n |-> 0, op |-> ""]
    /\ hk = [events |-> 0, created |-> 1,
             fired |-> [activate |-> 0, cancel |-> 0],
             down |-> [activate |-> {}, cancel |-> {}]]

\* the callbacks of the panel on the display thread, each followed by the rest of
\* the controller's handler
NextPanel ==
    \/ EntryEdited
    \/ ScheduleNotify
    \/ SpeedChanged
    \/ TimerFires
    \/ ResetDefaults
    \/ ChangeDelay
    \/ ChangeTypo
    \/ ChangeRebind
    \/ SetHotkeysActivate
    \/ SetHotkeysCancel
    \/ RebindUnlock
    \/ DisplayStep

SpecPanel == InitPanel /\ [][NextPanel]_vars

----------------------------------------------------------------------------
(* Calls of ClipboardReader.read (src/clipboard/clipboard_reader.py) *)

\* what pyperclip.paste() can do at a call of read(): return a string of letters
\* and white space, return None, or raise
ReadContents ==
    {[kind |-> "text", text |-> t] :
        t \in UNION {[1..n -> {"z", " ", "\t", "\n"}] : n \in 0..MaxReadLen}}
        \cup {[kind |-> "none", text |-> <<>>], [kind |-> "raises", text |-> <<>>]}

\* a call of read() about to be made
InitRead ==
    /\ clipboard \in ReadContents
    /\ gui = [pc |-> "call", op |-> "read", n |-> 0, settings |-> DefaultSettings,
              a |-> <<>>, c |-> <<>>, result |-> [error |-> "", text |-> <<>>]]
    /\ delay_model = DelayModel(DefaultSettings.typing_speed_wpm,
                                DefaultSettings.speed_variance,
                                DefaultSettings.min_delay_ms, DefaultSettings.max_delay_ms)
    /\ typo_generator = TypoGenerator(DefaultSettings.typo_rate)
    /\ typing_lock = 0
    /\ cancel_event = FALSE
    /\ threads = [w \in Workers |-> FreeThread]
    /\ status_log = <<>>
    /\ last_end = [session |-> "", dropped |-> FALSE]
    /\ after_queue = <<>>
    /\ display_status = "idle"
    /\ error_dialog = ""
    /\ files = NoFiles
    /\ listener = "None"
    /\ hotkey_lock = ""
    /\ activate_hotkey = NoHotKey
    /\ cancel_hotkey = NoHotKey
    /\ ev = [pc |-> "idle", kind |-> "", key |-> "", n |-> 0, op |-> ""]
    /\ hk = [events |-> 0, created |-> 0,
             fired |-> [activate |-> 0, cancel |-> 0],
             down |-> [activate |-> {}, cancel |-> {}]]

\* read() returns or raises: gui.result holds the text returned or the error
Read ==
    /\ gui.pc = "call"
    /\ gui.op = "read"
    /\ gui' = [gui EXCEPT !.pc = "returned", !.result = ClipboardRead(clipboard)]
    /\ UNCHANGED <<typing_lock, cancel_event, delay_model, typo_generator, threads,
                   status_log, last_end, after_queue, display_status, error_dialog,
                   clipboard, files, listener_vars>>

SpecRead == InitRead /\ [][Read]_vars

----------------------------------------------------------------------------
(* Draws from a DelayModel (src/engine/delay_model.py) *)

\* the arguments DelayModel is constructed from: speeds of the range 30..120,
\* variances from 0 to 5.0 (in hundredths), and bounds with min_ms <= max_ms as a
\* settings snapshot carries them
DelaySpeeds == {30, 39, 60, 70, 120}
DelayVariances == {0, 30, 100, 500}
DelayBounds == {<<20, 300>>, <<1, 100>>, <<100, 200>>, <<1, 1>>, <<500, 10000>>}

\* standard normal samples, far tails included
SampleZ == {-400, -3, 0, 2, 400}

\* the factors of the three time.sleep calls of run()
SleepFactors == {"one", "half"}

\* time.sleep(next_delay() * factor): the time waited, in microseconds
Wait(delay, factor) == IF factor = "half" THEN delay \div 2 ELSE delay

\* a DelayModel constructed; gui.result holds the draws made from it
InitDelay ==
    /\ \E wpm \in DelaySpeeds, variance \in DelayVariances, b \in DelayBounds :
          /\ delay_model = DelayModel(wpm, variance, b[1], b[2])
          /\ gui = [pc |-> "idle", op |-> "next_delay", n |-> 0,
                    settings |-> [typing_speed_wpm |-> wpm, speed_variance |-> variance,
                                  typo_rate |-> 0, min_delay_ms |-> b[1],
                                  max_delay_ms |-> b[2]],
                    a |-> <<>>, c |-> <<>>, result |-> <<>>]
    /\ typo_generator = TypoGenerator(0)
    /\ typing_lock = 0
    /\ cancel_event = FALSE
    /\ threads = [w \in Workers |-> FreeThread]
    /\ status_log = <<>>
    /\ last_end = [session |-> "", dropped |-> FALSE]
    /\ after_queue = <<>>
    /\ display_status = "idle"
    /\ error_dialog = ""
    /\ files = NoFiles
    /\ clipboard = [kind |-> "none", text |-> <<>>]
    /\ listener = "None"
    /\ hotkey_lock = ""
    /\ activate_hotkey = NoHotKey
    /\ cancel_hotkey = NoHotKey
    /\ ev = [pc |-> "idle", kind |-> "", key |-> "", n |-> 0, op |-> ""]
    /\ hk = [events |-> 0, created |-> 0,
             fired |-> [activate |-> 0, cancel |-> 0],
             down |-> [activate |-> {}, cancel |-> {}]]

\* one call of next_delay() and the wait made of it
NextDelay ==
    /\ gui.n < MaxCalls
    /\ \E z \in SampleZ, factor \in SleepFactors :
          gui' = [gui EXCEPT
                    !.n = gui.n + 1,
                    !.result = Append(gui.result,
                                      [delay  |-> next_delay(delay_model, z),
                                       factor |-> factor,
                                       wait   |-> Wait(next_delay(delay_model, z), factor)])]
    /\ UNCHANGED <<typing_lock, cancel_event, delay_model, typo_generator, threads,
                   status_log, last_end, after_queue, display_status, error_dialog,
                   clipboard, files, listener_vars>>

SpecDelay == InitDelay /\ [][NextDelay]_vars

----------------------------------------------------------------------------
(* Calls of get_typo_char (src/engine/typo_generator.py) *)

\* the characters get_typo_char is called with: the letters of both cases, digits,
\* punctuation, white space and letters outside ASCII
TypoChars ==
    Range(LOWER) \cup Range(UPPER)
        \cup {"1", "3", "0", "!", ";", ",", "[", "-", " ", "\t", "\n",
              "e_acute", "E_ACUTE", "KELVIN_SIGN"}

\* a call get_typo_char(c) about to be made: gui.a holds c
InitTypo ==
    /\ \E c \in TypoChars :
          gui = [pc |-> "call", op |-> "get_typo_char", n |-> 0, settings |-> DefaultSettings,
                 a |-> c, c |-> <<>>, result |-> ""]
    /\ delay_model = DelayModel(DefaultSettings.typing_speed_wpm,
                                DefaultSettings.speed_variance,
                                DefaultSettings.min_delay_ms, DefaultSettings.max_delay_ms)
    /\ typo_generator = TypoGenerator(DefaultSettings.typo_rate)
    /\ typing_lock = 0
    /\ cancel_event = FALSE
    /\ threads = [w \in Workers |-> FreeThread]
    /\ status_log = <<>>
    /\ last_end = [session |-> "", dropped |-> FALSE]
    /\ after_queue = <<>>
    /\ display_status = "idle"
    /\ error_dialog = ""
    /\ files = NoFiles
    /\ clipboard = [kind |-> "none", text |-> <<>>]
    /\ listener = "None"
    /\ hotkey_lock = ""
    /\ activate_hotkey = NoHotKey
    /\ cancel_hotkey = NoHotKey
    /\ ev = [pc |-> "idle", kind |-> "", key |-> "", n |-> 0, op |-> ""]
    /\ hk = [events |-> 0, created |-> 0,
             fired |-> [activate |-> 0, cancel |-> 0],
             down |-> [activate |-> {}, cancel |-> {}]]

\* the call returns: gui.result holds the value returned
GetTypoChar ==
    /\ gui.pc = "call"
    /\ \E r \in get_typo_char(gui.a) :
          gui' = [gui EXCEPT !.pc = "returned", !.result = r]
    /\ UNCHANGED <<typing_lock, cancel_event, delay_model, typo_generator, threads,
                   status_log, last_end, after_queue, display_status, error_dialog,
                   clipboard, files, listener_vars>>

SpecTypo == InitTypo /\ [][GetTypoChar]_vars

\* the engine typing sample texts (a letter and a tab; a digit and a newline; an
\* upper-case and a lower-case letter) under the default snapshot or the snapshot
\* with typo rate 0
SampleTexts == {<<"z", "\t">>, <<"1", "\n">>, <<"Z", "z">>}

InitSamples ==
    Constructed /\ clipboard \in {[kind |-> "text", text |-> t] : t \in SampleTexts}

SpecSamples == InitSamples /\ [][Next]_vars

\* the settings panel: update_settings is called, any number of times, while
\* worker threads type the text on the clipboard
InitSettings == InitTyping /\ clipboard = [kind |-> "text", text |-> <<"\n", "z">>]

NextSettings ==
    \/ UpdateSettingsDelay
    \/ UpdateSettingsTypo
    \/ OnActivate
    \/ DisplayStep
    \/ \E w \in Workers :
          \/ RunAcquire(w)
          \/ RunClear(w)
          \/ RunEmitTyping(w)
          \/ RunLoop(w)
          \/ RunPressSpecial(w)
          \/ RunReleaseSpecial(w)
          \/ RunTypeTypo(w)
          \/ RunSleepTypo(w)
          \/ RunPressBackspace(w)
          \/ RunReleaseBackspace(w)
          \/ RunSleepHalf(w)
          \/ RunTypeChar(w)
          \/ RunSleep(w)
          \/ RunEmitIdle(w)
          \/ RunFinally(w)

SpecSettings == InitSettings /\ [][NextSettings]_vars

----------------------------------------------------------------------------
(* Properties of TypingEngine *)

\* the worker threads that are inside run() past the lock acquisition
Holders == {w \in Workers : threads[w].pc \in HoldingPcs}

\* C1: under any interleaving of concurrent run() calls at most one of them is past
\* the lock acquisition, it is the one that holds the run-lock, and only it has
\* injected keys or slept, so the injections of two sessions never interleave
C1_OneSessionAtATime ==
    /\ Cardinality(Holders) <= 1
    /\ \A w \in Holders : typing_lock = w
    /\ \A w \in Workers : threads[w].last # NoEvent => w \in Holders

\* one run() is in the middle of a character while another run() call has been made
C1_Witness ==
    \E w \in Workers, u \in Workers :
       /\ threads[w].pc \in CharPcs
       /\ threads[w].i < Len(threads[w].text)
       /\ threads[u].pc = "start"

\* C2: a step of a run() call made while another run holds the run-lock ends the
\* call and changes nothing else: no status, no scheduled callback, no injection,
\* the cancellation signal and the lock as they were, every other thread as it was,
\* and nothing of the call left to run later
C2_DroppedRunChangesNothing ==
    [][\A w \in Workers :
          (threads[w].pc = "start" /\ typing_lock # 0 /\ threads'[w] # threads[w])
          => /\ threads'[w] = FreeThread
             /\ \A u \in Workers \ {w} : threads'[u] = threads[u]
             /\ UNCHANGED <<typing_lock, cancel_event, status_log, after_queue,
                            display_status, error_dialog, delay_model,
                            typo_generator>>]_vars

\* a run() has been dropped during the session that is now in the middle of its text
C2_Witness ==
    /\ last_end.dropped
    /\ \E w \in Workers : threads[w].pc \in CharPcs /\ typing_lock = w

C4_LockReleasedOnEveryExit ==
    /\ typing_lock # 0 => threads[typing_lock].pc \in HoldingPcs
    /\ last_end.session # "" /\ Holders = {} => typing_lock = 0

\* a session ended by an injection error, and the next activation is in a session
C4_Witness ==
    /\ last_end.session = "InjectError"
    /\ \E w \in Workers : threads[w].pc = "emit_typing" /\ typing_lock = w

\* the last status the engine emitted
LastStatus == status_log[Len(status_log)]

\* the run-lock is free and the last session ended in one of the given ways
SessionOver(ends) == typing_lock = 0 /\ last_end.session \in ends

\* the engine emits status in this step
Emits(status) ==
    /\ \E w \in Workers : threads'[w].out = Append(threads[w].out, status)
    /\ status_log' # <<>>
    /\ status_log'[Len(status_log')] = status

\* "typing" follows a terminal status, or nothing, and a terminal status follows
\* "typing"; sessions that ended in one of the given ways are excepted
Alternates(excepted) ==
    /\ Emits("typing")
          => \/ status_log = <<>>
             \/ LastStatus \in {"idle", "cancelled"}
             \/ last_end.session \in excepted
    /\ Emits("idle") \/ Emits("cancelled")
          => status_log # <<>> /\ LastStatus = "typing"

C9_DisplayLeavesTyping ==
    (/\ SessionOver({"InjectError"})
     /\ Holders = {}
     /\ after_queue = <<>>)
    => display_status # "typing"

\* C10 as stated: after cancel() was called during a session, the session takes
\* no further character of its text
C10_NoCharacterAfterCancel ==
    [][\A w \in Workers :
          threads[w].cancels \in {"early", "live"}
          => threads'[w].i <= threads[w].i]_vars

\* C10: cancel() can always be called and changes only the cancellation signal;
\* after cancel() was called during a session that had cleared the signal, the
\* session finishes the character it is processing and takes no further one
C10_NoCharacterAfterLiveCancel ==
    /\ []ENABLED OnCancel
    /\ [][/\ cancel_event' /\ ~cancel_event
             => /\ UNCHANGED <<typing_lock, status_log, after_queue, display_status>>
                /\ \A w \in Workers :
                      threads'[w] = [threads[w] EXCEPT !.cancels = threads'[w].cancels]
          /\ \A w \in Workers :
                threads[w].cancels = "live"
                => /\ threads'[w].i <= threads[w].i
                   /\ threads[w].pc = "loop"
                         => threads'[w].pc \in {"loop", "emit_cancelled"}]_vars

\* a session cancelled in the middle of a typo correction has finished the
\* character and stopped with text left
C10_Witness ==
    \E w \in Workers :
       /\ threads[w].cancels = "live"
       /\ threads[w].pc = "emit_cancelled"
       /\ threads[w].typo # None
       /\ threads[w].last = Event("sleep", "one")
       /\ threads[w].i < Len(threads[w].text)

----------------------------------------------------------------------------
(* Properties of HotkeyListener *)

\* chord strings with an empty part or a repeated key
MalformedChords == {<<"<ctrl>", "">>, <<"k", "K">>}

\* C5: a rebind call with a malformed chord raises the format error, releases the
\* mutex and leaves both matchers, with their keys, callbacks and key state, as
\* they were; and a matcher is replaced only by a call whose chords are both well
\* formed, so none is replaced on behalf of a failed call
C5_FailedRebindChangesNothing ==
    [][/\ (/\ gui'.n # gui.n
           /\ gui'.op = "rebind"
           /\ gui'.a \in MalformedChords \/ gui'.c \in MalformedChords)
          => /\ gui'.pc = "idle"
             /\ gui'.result = "ValueError"
             /\ hotkey_lock' = ""
             /\ activate_hotkey' = activate_hotkey
             /\ cancel_hotkey' = cancel_hotkey
       /\ (activate_hotkey'.n # activate_hotkey.n \/ cancel_hotkey'.n # cancel_hotkey.n)
          => gui.a \notin MalformedChords /\ gui.c \notin MalformedChords]_vars

\* a rebind has failed while the listener runs and the activate matcher, set by an
\* earlier call, holds a pressed key
C5_Witness ==
    /\ gui.op = "rebind"
    /\ gui.result = "ValueError"
    /\ gui.pc = "idle"
    /\ listener = "alive"
    /\ activate_hotkey.state # {}
    /\ activate_hotkey.n < gui.n
    /\ cancel_hotkey.n = activate_hotkey.n

\* C6: between the two matchers' handling of one key event, the cancel matcher is
\* never older than an activate matcher that a rebind set, and never a newer one
\* that a rebind set: no event sees half of a rebind
C6_EventSeesOnePair ==
    ev.pc = "cancel"
    => /\ ~(ev.op = "rebind" /\ cancel_hotkey.n < ev.n)
       /\ ~(cancel_hotkey.op = "rebind" /\ ev.n < cancel_hotkey.n)

\* after events handled by the pair that start set, an event is handled by the
\* pair that a rebind set
C6_Witness ==
    /\ ev.pc = "cancel"
    /\ ev.op = "rebind"
    /\ cancel_hotkey.op = "rebind"
    /\ cancel_hotkey.n = ev.n
    /\ hk.fired.activate + hk.fired.cancel > 0
    /\ hk.events > 1

\* the event being handled is the press that completes the chord of the matcher:
\* a press of a key of the chord that was not reported down, with every other key
\* of the chord reported down since the matcher was set
Completes(h, down) ==
    /\ h # NoHotKey
    /\ ev.kind = "press"
    /\ ListenerCanonical(ev.key) \in h.keys
    /\ ListenerCanonical(ev.key) \notin down
    /\ h.keys \subseteq down \cup {ListenerCanonical(ev.key)}

----------------------------------------------------------------------------
(* Properties of the callbacks *)

\* the event-delivery thread takes a step
EventThreadStep == ev' # ev

\* C11: a step of the event-delivery thread leaves the run-lock, the status history
\* and every running worker as they are, at most noting the cancel, and at most
\* starts a new worker thread at the beginning of run(); and whoever holds the
\* run-lock, the delivery of an event can begin and both matchers' handling of it
\* can proceed (the activate callback needing only a thread to start or room for
\* its error dialog)
C11_DeliveryNeverWaitsForSession ==
    /\ [][EventThreadStep
             => /\ UNCHANGED <<typing_lock, status_log, last_end, display_status>>
                /\ \A w \in Workers :
                      IF threads[w].pc = "free"
                      THEN threads'[w] = FreeThread \/ threads'[w].pc = "start"
                      ELSE threads'[w] =
                              [threads[w] EXCEPT !.cancels = threads'[w].cancels]]_vars
    /\ [](/\ (ev.pc = "idle" /\ hk.events < MaxEvents) => ENABLED OnEvent
          /\ (ev.pc = "activate" /\ FreeWorkers # {} /\ Len(after_queue) < MaxQueue)
                => ENABLED OnEventActivate
          /\ ev.pc = "cancel" => ENABLED OnEventCancel)

\* the cancel chord has been delivered while the session that the activate chord
\* started was in the middle of its text, which it has not left yet
C11_Witness ==
    /\ hk.fired.cancel = 1
    /\ hk.fired.activate = 1
    /\ ev.pc = "idle"
    /\ \E w \in Workers :
          /\ typing_lock = w
          /\ threads[w].cancels = "live"
          /\ threads[w].pc \in CharPcs

----------------------------------------------------------------------------
(* Properties of the listener's life cycle *)

\* C12 as stated: over any sequence of start, rebind and stop calls at most one
\* keyboard.Listener is ever created, and no step of a rebind call changes the
\* listener or creates one
C12_OneSubscriptionEver ==
    /\ [](hk.created <= 1)
    /\ [][(gui' # gui /\ gui'.op = "rebind")
             => listener' = listener /\ hk'.created = hk.created]_vars

\* C13: a start call with a malformed chord raises the format error and changes
\* neither the listener nor the matchers and creates no keyboard.Listener; when it
\* is the first call on the HotkeyListener, is_running is false afterwards and
\* both matchers are still None
C13_FailedStartCreatesNothing ==
    /\ [][(/\ gui'.n # gui.n
           /\ gui'.op = "start"
           /\ gui'.a \in MalformedChords \/ gui'.c \in MalformedChords)
          => /\ gui'.pc = "idle"
             /\ gui'.result = "ValueError"
             /\ hk'.created = hk.created
             /\ UNCHANGED <<listener, hotkey_lock, activate_hotkey, cancel_hotkey>>]_vars
    /\ []((gui.n = 1 /\ gui.op = "start" /\ gui.result = "ValueError")
             => /\ gui.pc = "idle"
                /\ ~is_running
                /\ hk.created = 0
                /\ activate_hotkey = NoHotKey
                /\ cancel_hotkey = NoHotKey)

\* the first start call was given a well-formed activate chord and a malformed
\* cancel chord, and has raised
C13_Witness ==
    /\ gui.n = 1
    /\ gui.op = "start"
    /\ gui.result = "ValueError"
    /\ gui.a \notin MalformedChords
    /\ gui.c \in MalformedChords
    /\ ~is_running

----------------------------------------------------------------------------
(* Properties of update_settings *)

\* the DelayModel that update_settings builds from a snapshot
DelayModelOf(s) ==
    DelayModel(s.typing_speed_wpm, s.speed_variance, s.min_delay_ms, s.max_delay_ms)

\* the snapshot of the last update_settings call that has returned: the one whose
\* typo generator, the call's last assignment, is in force
LastInstalled ==
    CHOOSE s \in SettingsChoices : TypoGenerator(s.typo_rate) = typo_generator

\* the worker draws a delay in this step
Draws(w) ==
    /\ threads[w].pc \in {"sleep_typo", "sleep_half", "sleep"}
    /\ threads'[w].pc # threads[w].pc
    /\ threads'[w].last.kind = "sleep"

----------------------------------------------------------------------------
(* Properties of the loop body *)

\* the thread has injected nothing and slept on nothing since the previous
\* character's trailing delay, or since run() began
AtCharacterStart(th) ==
    IF th.i <= 1 /\ th.last = NoEvent THEN TRUE
    ELSE th.i > 1 /\ th.last = Event("sleep", "one")

\* C15: with typo rate 0, in a run() that no cancel() call fell into and in which
\* nothing raised, each character is injected once, in order of the text: newline
\* as press and release of Enter, tab as press and release of Tab, any other
\* character as itself; one whole delay follows each character; no typo is typed,
\* no backspace injected, and after the last character's delay "idle" is emitted
C15_SteadyRunTypesTextVerbatim ==
    \A w \in Workers :
       LET th == threads[w]
           c == th.text[th.i]
       IN (typo_generator.typo_rate = 0 /\ th.cancels = "none" /\ th.ended = "")
          => /\ th.pc \notin {"type_typo", "sleep_typo", "press_backspace",
                              "release_backspace", "sleep_half", "emit_cancelled"}
             /\ th.typo = None
             /\ th.last.val # "Key.backspace"
             /\ th.pc = "loop"
                   => IF th.i = 0 THEN th.last = NoEvent
                      ELSE th.last = Event("sleep", "one")
             /\ th.pc = "press_special"
                   => c \in {"\n", "\t"} /\ AtCharacterStart(th)
             /\ th.pc = "release_special"
                   => th.last = Event("press", IF c = "\n" THEN "Key.enter"
                                               ELSE "Key.tab")
             /\ th.pc = "type_char"
                   => c \notin {"\n", "\t"} /\ AtCharacterStart(th)
             /\ th.pc = "sleep"
                   => th.last = (IF c = "\n" THEN Event("release", "Key.enter")
                                 ELSE IF c = "\t" THEN Event("release", "Key.tab")
                                 ELSE Event("type", c))
             /\ th.pc = "emit_idle"
                   => th.i = Len(th.text) /\ th.last = Event("sleep", "one")
             /\ th.pc = "finally"
                   => th.i = Len(th.text) /\ th.out = <<"typing", "idle">>

\* with typo rate 0 a run() has typed a letter and a tab, slept after the tab and
\* emitted "idle"
C15_Witness ==
    /\ typo_generator.typo_rate = 0
    /\ \E w \in Workers :
          /\ threads[w].text = <<"z", "\t">>
          /\ threads[w].cancels = "none"
          /\ threads[w].ended = ""
          /\ threads[w].pc = "finally"
          /\ threads[w].last = Event("sleep", "one")
          /\ threads[w].out = <<"typing", "idle">>

\* C16: a character takes the typo path only if it is a letter, the typo rate is
\* not 0 and the substitute is a neighbour of the letter, in the letter's case; on
\* that path the substitute is typed, a whole delay slept, backspace pressed and
\* released, half a delay slept, the letter itself typed and a whole delay slept,
\* in that order
C16_TypoPathOrder ==
    \A w \in Workers :
       LET th == threads[w]
           c == th.text[th.i]
       IN (th.typo # None /\ th.pc # "free")
          => /\ c \in Range(LOWER) \cup Range(UPPER)
             /\ typo_generator.typo_rate > 0
             /\ \E t \in Range(ADJACENT_KEYS[Lower(c)]) :
                   th.typo = IF c \in Range(UPPER) THEN Upper(t) ELSE t
             /\ th.pc = "type_typo" => AtCharacterStart(th)
             /\ th.pc = "sleep_typo" => th.last = Event("type", th.typo)
             /\ th.pc = "press_backspace" => th.last = Event("sleep", "one")
             /\ th.pc = "release_backspace" => th.last = Event("press", "Key.backspace")
             /\ th.pc = "sleep_half" => th.last = Event("release", "Key.backspace")
             /\ th.pc = "type_char" => th.last = Event("sleep", "half")
             /\ th.pc = "sleep" => th.last = Event("type", c)
             /\ th.pc = "loop" => th.last = Event("sleep", "one")
             /\ th.pc \notin {"press_special", "release_special"}

\* the upper-case letter took the typo path: its substitute is upper case, and the
\* letter itself has been typed after the correction
C16_Witness ==
    \E w \in Workers :
       /\ threads[w].text = <<"Z", "z">>
       /\ threads[w].i = 1
       /\ threads[w].typo \in {"A", "S", "X"}
       /\ threads[w].pc = "sleep"
       /\ threads[w].last = Event("type", "Z")

----------------------------------------------------------------------------
(* Properties of AppController.start *)

\* C17 as stated: the permission guidance is scheduled or shown only when the
\* creation of the listener failed, not when start() failed on a malformed chord
C17_GuidanceOnlyForSubscriptionFailure ==
    (\/ error_dialog = PermissionMessage
     \/ \E n \in DOMAIN after_queue : after_queue[n].arg = PermissionMessage)
    => gui.result = "ListenerError"

----------------------------------------------------------------------------
(* Properties of AppController._on_activate *)

\* a step schedules an error message for display
ReportsError ==
    /\ Len(after_queue') = Len(after_queue) + 1
    /\ after_queue'[Len(after_queue')].kind = "error"

\* a step spawns a worker
SpawnsWorker == \E w \in Workers : threads[w].pc = "free" /\ threads'[w].pc # "free"

\* C18: an activation whose clipboard read fails reports the error and spawns no
\* worker: the step that reports the error leaves the workers (a session in
\* progress included), the run-lock, the cancellation signal and the statuses as
\* they were, and no worker is spawned while the read fails
C18_FailedReadStartsNothing ==
    [][/\ ReportsError =>
            /\ ClipboardRead(clipboard).error # ""
            /\ after_queue' = RootAfter(after_queue, "error", ClipboardRead(clipboard).error)
            /\ UNCHANGED <<threads, typing_lock, cancel_event, status_log, last_end,
                           display_status>>
       /\ SpawnsWorker => ClipboardRead(clipboard).error = ""]_vars

\* an error is waiting for display while a session is in the middle of its text
C18_Witness ==
    /\ \E n \in DOMAIN after_queue : after_queue[n].kind = "error"
    /\ ClipboardRead(clipboard).error # ""
    /\ \E w \in Workers : typing_lock = w /\ threads[w].pc \in CharPcs

----------------------------------------------------------------------------
(* Properties of AppSettings *)

\* a >= b on numbers
Ge(a, b) == a.kind # "nan" /\ b.kind # "nan" /\ ~Lt(a, b)

\* C19: every snapshot constructed has speed in [30,120], variance in [0,1], typo
\* rate in [0,0.10], min_delay_ms >= 1, max_delay_ms >= min_delay_ms and non-blank
\* activate and cancel chord strings, whatever the arguments were
C19_ConstructedSnapshotInRange ==
    gui.pc = "constructed" =>
        LET s == gui.settings IN
        /\ s.typing_speed_wpm.kind = "num"
        /\ s.typing_speed_wpm.v \in 30000..120000
        /\ s.speed_variance.kind = "num"
        /\ s.speed_variance.v \in 0..1000
        /\ s.typo_rate.kind = "num"
        /\ s.typo_rate.v \in 0..100
        /\ Ge(s.min_delay_ms, Num(1000))
        /\ Ge(s.max_delay_ms, s.min_delay_ms)
        /\ s.activate_hotkey.kind = "str" /\ ~IsBlank(s.activate_hotkey.s)
        /\ s.cancel_hotkey.kind = "str" /\ ~IsBlank(s.cancel_hotkey.s)

\* a snapshot constructed from a speed above the range, a NaN variance, a
\* negative typo rate, delays in the wrong order and blank chords
C19_Witness ==
    /\ gui.pc = "constructed"
    /\ gui.a.typing_speed_wpm = Num(120500)
    /\ gui.a.speed_variance = NaN
    /\ gui.a.typo_rate = Num(-1)
    /\ gui.a.min_delay_ms = Num(500000)
    /\ gui.a.max_delay_ms = Num(10000)
    /\ gui.a.activate_hotkey = ChordStr(<<" ", "\t">>)
    /\ gui.a.cancel_hotkey = ChordStr(<<>>)
    /\ gui.settings.typing_speed_wpm = Num(120000)
    /\ gui.settings.max_delay_ms = Num(500000)

\* C20 as stated: constructing a snapshot never raises, whatever field values are
\* supplied
C20_ConstructionNeverRaises == gui.pc # "raised"

----------------------------------------------------------------------------
(* Properties of DelayModel *)

ClampedMean ==
    IF delay_model.mean_ms > delay_model.max_ms THEN delay_model.max_ms
    ELSE IF delay_model.mean_ms < delay_model.min_ms THEN delay_model.min_ms
    ELSE delay_model.mean_ms

\* C22 as stated: with variance 0 every draw equals mean_ms / 1000, for every
\* speed in 30..120 and every pair of bounds
C22_ZeroVarianceYieldsMean ==
    gui.op = "next_delay" /\ gui.settings.speed_variance = 0
        => /\ delay_model.mean_ms = (60000000 \div gui.settings.typing_speed_wpm) \div 5
           /\ \A n \in DOMAIN gui.result : gui.result[n].delay = delay_model.mean_ms

\* C22: with variance 0 every draw returns the same value, the mean
\* (60000 / speed) / 5 ms floored at min_ms and capped at max_ms; it equals
\* mean_ms / 1000 whenever min_ms <= mean_ms <= max_ms
C22_ZeroVarianceYieldsClampedMean ==
    gui.op = "next_delay" /\ gui.settings.speed_variance = 0
        => /\ delay_model.mean_ms = (60000000 \div gui.settings.typing_speed_wpm) \div 5
           /\ \A n \in DOMAIN gui.result : gui.result[n].delay = ClampedMean
           /\ \A m, n \in DOMAIN gui.result : gui.result[m].delay = gui.result[n].delay
           /\ (delay_model.min_ms <= delay_model.mean_ms
                  /\ delay_model.mean_ms <= delay_model.max_ms)
                 => \A n \in DOMAIN gui.result : gui.result[n].delay = delay_model.mean_ms

\* two draws at speed 30 and variance 0 under the default bounds 20..300 ms: the
\* mean is 400 ms and both draws are 300 ms
C22_Witness ==
    /\ gui.op = "next_delay"
    /\ gui.settings.speed_variance = 0
    /\ gui.settings.typing_speed_wpm = 30
    /\ gui.settings.max_delay_ms = 300
    /\ delay_model.mean_ms = 400000
    /\ Len(gui.result) = 2
    /\ gui.result[1].delay = 300000
    /\ gui.result[2].delay = 300000

----------------------------------------------------------------------------
(* Properties of get_typo_char *)

\* C23: for a character whose lower case is one of the 26 letters of the table,
\* get_typo_char returns a neighbour listed for that letter, upper-cased when the
\* character is upper case and as listed otherwise; for every other character
\* it returns None
C23_TypoIsCasedNeighbour ==
    gui.op = "get_typo_char" /\ gui.pc = "returned" =>
        LET c == gui.a
            r == gui.result
        IN  /\ Lower(c) \in Range(LOWER)
                  => \E n \in DOMAIN ADJACENT_KEYS[Lower(c)] :
                        r = IF IsUpper(c) THEN Upper(ADJACENT_KEYS[Lower(c)][n])
                            ELSE ADJACENT_KEYS[Lower(c)][n]
            /\ Lower(c) \notin Range(LOWER) => r = None
            /\ c = "a" => r \in {"s", "q", "z", "w"}
            /\ c = "P" => r \in {"O", "L", "[", "0", "-"}
            /\ c = "KELVIN_SIGN" => r \in {"J", "I", "O", "L", "M"}
            /\ c \in {"1", "3", "0", "!", ";", ",", "[", "-", " ", "\t", "\n",
                      "e_acute", "E_ACUTE"} => r = None

\* the call for the upper-case letter E has returned the digit 3, which has no
\* upper case
C23_Witness ==
    /\ gui.op = "get_typo_char"
    /\ gui.pc = "returned"
    /\ gui.a = "E"
    /\ gui.result = "3"

----------------------------------------------------------------------------
(* Properties of the event dispatch of HotkeyListener *)

\* the matcher h2 is the matcher h after the canonical form of the key of the
\* event was pressed or released on it
Delivered(h, h2) ==
    IF h = NoHotKey THEN h2 = h
    ELSE /\ h2.keys = h.keys
         /\ h2.state = IF ev.kind = "press"
                       THEN h.state \cup ({ListenerCanonical(ev.key)} \cap h.keys)
                       ELSE h.state \ {ListenerCanonical(ev.key)}

\* C24: every key event goes to the activate matcher and then to the cancel
\* matcher, each time in canonical form, so a key of both chords is held in both;
\* and each matcher whose chord the press completes calls its callback, whether or
\* not the other has called its own for the same event
C24_EventReachesBothMatchers ==
    [][/\ (ev.pc = "idle" /\ ev' # ev) => ev'.pc = "activate"
       /\ (ev.pc = "activate" /\ ev' # ev)
             => /\ ev'.pc = "cancel"
                /\ ev'.kind = ev.kind /\ ev'.key = ev.key
                /\ Delivered(activate_hotkey, activate_hotkey')
                /\ Completes(activate_hotkey, hk.down.activate)
                      => hk'.fired.activate = hk.fired.activate + 1
       /\ (ev.pc = "cancel" /\ ev' # ev)
             => /\ ev'.pc = "idle"
                /\ Delivered(cancel_hotkey, cancel_hotkey')
                /\ Completes(cancel_hotkey, hk.down.cancel)
                      => /\ hk'.fired.cancel = hk.fired.cancel + 1
                         /\ cancel_event']_vars

\* both chords are <ctrl>+k: after the press of the left control key and the press
\* of K, two events, both keys are held in both matchers and both callbacks
\* have been called once
C24_Witness ==
    /\ hk.events = 2
    /\ ev.pc = "idle"
    /\ activate_hotkey.keys = {"Key.ctrl", "k"}
    /\ cancel_hotkey.keys = {"Key.ctrl", "k"}
    /\ activate_hotkey.state = activate_hotkey.keys
    /\ cancel_hotkey.state = cancel_hotkey.keys
    /\ hk.fired.activate = 1
    /\ hk.fired.cancel = 1

----------------------------------------------------------------------------
(* Properties of ConfigStore *)

\* C25: load() after save(s) returns settings equal to s in all seven fields, also
\* when the file has since been given keys that are no settings fields
C25_SaveLoadRoundTrip ==
    gui.op = "load" /\ files.config.exists
        => /\ gui.result = ""
           /\ \A f \in NumericFields \cup ChordFields :
                 gui.settings[f] = files.config.of[f]

\* a load has returned the settings of the second save, whose chords hold a tab,
\* a quote and a backslash and whose delay floor is infinite, from a file with
\* the extra key theme
C25_Witness ==
    /\ gui.op = "load"
    /\ gui.n = 2
    /\ files.config.exists
    /\ "theme" \in DOMAIN files.config.data
    /\ gui.settings.activate_hotkey = ChordStr(<<"\t", "k">>)
    /\ gui.settings.cancel_hotkey = ChordStr(<<"\"", "q", "\\">>)
    /\ gui.settings.min_delay_ms = Inf
    /\ gui.settings.max_delay_ms = Inf
    /\ gui.settings.typing_speed_wpm = Num(90000)

----------------------------------------------------------------------------
(* Properties of ClipboardReader *)

\* C27: read() returns the clipboard text unchanged when it holds a character
\* that is not white space, raises EmptyClipboardError when the content is None,
\* empty or white space only, and raises NonTextClipboardError when the clipboard
\* access raises
C27_ReadReturnsTextOrTypedError ==
    gui.op = "read" /\ gui.pc = "returned" =>
        LET text == clipboard.text
            some == \E n \in DOMAIN text : text[n] \notin {" ", "\t", "\n"}
        IN  /\ clipboard.kind = "raises" => gui.result.error = "NonTextClipboardError"
            /\ clipboard.kind = "none" => gui.result.error = "EmptyClipboardError"
            /\ clipboard.kind = "text" /\ ~some
                  => gui.result.error = "EmptyClipboardError"
            /\ clipboard.kind = "text" /\ some
                  => gui.result.error = "" /\ gui.result.text = text

\* read() has returned a text that begins and ends with white space as it is
C27_Witness ==
    /\ gui.op = "read"
    /\ gui.pc = "returned"
    /\ clipboard.text = <<" ", "z", "\n">>
    /\ gui.result = [error |-> "", text |-> <<" ", "z", "\n">>]

----------------------------------------------------------------------------
(* Properties of update_settings and the loop *)

\* the two models of the engine are those of one settings snapshot
OneSnapshot ==
    \E s \in SettingsChoices :
        /\ delay_model = DelayModelOf(s)
        /\ typo_generator = TypoGenerator(s.typo_rate)

\* the worker reads self._typo_generator in this step: should_typo() for the next
\* character
DecidesTypo(w) ==
    /\ threads[w].pc = "loop"
    /\ threads'[w].i = threads[w].i + 1

\* C28 as stated: whenever the typing loop reads the delay model or the typo
\* generator, the two are the models of one settings snapshot, both of the old or
\* both of the new
C28_LoopSeesOneSnapshot ==
    [][\A w \in Workers : (Draws(w) \/ DecidesTypo(w)) => OneSnapshot]_vars

----------------------------------------------------------------------------
(* Properties of AppController._on_settings_changed *)

\* C29: a settings change whose chords rebind rejects schedules the format error
\* in the step that rejects them, and once the handler is over the engine has the
\* models of the new numbers, the settings in memory hold the new numbers and the
\* old chords, and both matchers of the listener are bound to the old chords
C29_RejectedChordsKeepOldBindings ==
    /\ [](gui.pc = "idle" /\ gui.result = "ValueError"
            => /\ delay_model = DelayModelOf(gui.new)
               /\ typo_generator = TypoGenerator(gui.new.typo_rate)
               /\ gui.settings = WithChords(gui.new, gui.old.activate_hotkey,
                                            gui.old.cancel_hotkey)
               /\ activate_hotkey.keys = HotKeyParse(gui.old.activate_hotkey).keys
               /\ cancel_hotkey.keys = HotKeyParse(gui.old.cancel_hotkey).keys
               /\ activate_hotkey.on_activate = "activate"
               /\ cancel_hotkey.on_activate = "cancel"
               /\ hotkey_lock # "gui")
    /\ [][(gui.result # "ValueError" /\ gui'.result = "ValueError")
            => /\ gui'.new.activate_hotkey \in MalformedChords
                     \/ gui'.new.cancel_hotkey \in MalformedChords
               /\ after_queue' = RootAfter(after_queue, "error", "Invalid hotkey format")
               /\ activate_hotkey' = activate_hotkey
               /\ cancel_hotkey' = cancel_hotkey]_vars

----------------------------------------------------------------------------
(* Properties of the cancellation signal across sessions *)

\* the session of w has cleared the signal and no cancel() has been called since
\* while it had characters left
NotCancelledSinceClear(w) ==
    /\ threads[w].pc \in HoldingPcs \ {"clear"}
    /\ threads[w].cancels # "live"

----------------------------------------------------------------------------
(* Properties of the text a session produces *)

\* the characters of the text that the loop has taken
Taken(th) == SubSeq(th.text, 1, th.i)

\* C31: with each Backspace deleting the last injected character, the text a
\* session has produced is the text's prefix before the character the loop is
\* about to take whenever the loop checks the cancellation signal; a session that
\* is emitting or has emitted "idle" has produced the whole text, and one that is
\* emitting or has emitted "cancelled" has produced the prefix taken so far
C31_NetTextIsPrefix ==
    \A w \in Workers :
       /\ threads[w].pc \in {"loop", "emit_idle", "emit_cancelled"}
             => threads[w].net = Taken(threads[w])
       /\ (threads[w].pc = "emit_idle"
             \/ \E n \in DOMAIN threads[w].out : threads[w].out[n] = "idle")
             => threads[w].net = threads[w].text
       /\ (threads[w].pc = "emit_cancelled"
             \/ \E n \in DOMAIN threads[w].out : threads[w].out[n] = "cancelled")
             => /\ threads[w].net = Taken(threads[w])
                /\ threads[w].i < Len(threads[w].text)

\* a session cancelled after its first character, which it had mistyped and
\* corrected, has emitted "cancelled" with that character alone produced
C31_Witness ==
    \E w \in Workers :
       /\ threads[w].pc = "finally"
       /\ threads[w].out = <<"typing", "cancelled">>
       /\ threads[w].typo # None
       /\ threads[w].i = 1
       /\ Len(threads[w].text) = 2
       /\ threads[w].net = <<threads[w].text[1]>>

----------------------------------------------------------------------------
(* Properties of the persisted chords *)

\* C32 as stated: whenever no settings change is in progress and a settings file
\* has been written, the chords in the file are those of the settings in memory,
\* rebind accepts them, and both matchers of the listener are bound to them
C32_PersistedChordsAreBound ==
    (gui.pc = "idle" /\ gui.result # "OSError" /\ files.config.exists)
       => /\ files.config.of.activate_hotkey
                = AsAppSettings(gui.settings).activate_hotkey
          /\ files.config.of.cancel_hotkey
                = AsAppSettings(gui.settings).cancel_hotkey
          /\ SetHotkeysParses(gui.settings.activate_hotkey, gui.settings.cancel_hotkey)
          /\ activate_hotkey.keys = HotKeyParse(gui.settings.activate_hotkey).keys
          /\ cancel_hotkey.keys = HotKeyParse(gui.settings.cancel_hotkey).keys

----------------------------------------------------------------------------
(* Properties of the locks *)

\* the display thread is inside _on_settings_changed at rebind's with self._lock
\* and the listener mutex is held
DisplayWaitsForMutex == gui.pc = "change_rebind" /\ hotkey_lock # ""

\* the event-delivery thread holds the listener mutex and waits for the display
\* thread to run the call it handed over
EventThreadWaitsForDisplay ==
    hotkey_lock = "listener" /\ ev.pc = "after" /\ gui.pc # "idle"

\* C33 as stated: the threads cannot deadlock: the display thread never waits for
\* the listener mutex while the event-delivery thread, holding it, waits for the
\* display thread
C33_NoDeadlock == ~(DisplayWaitsForMutex /\ EventThreadWaitsForDisplay)

----------------------------------------------------------------------------
(* Properties of the end of a session *)

\* the session of w holds the run-lock and waits inside its status callback for
\* the display thread
SessionWaitsForDisplay(w) ==
    /\ typing_lock = w
    /\ threads[w].pc \in {"emit_typing", "emit_idle", "emit_cancelled"}
    /\ gui.pc # "idle"

\* C34 as stated: a session that holds the run-lock is never unable to end: it is
\* never waiting for a display thread that waits for the listener mutex, held by
\* an event-delivery thread that waits for the display thread
C34_SessionCanAlwaysEnd ==
    \A w \in Workers :
       ~(SessionWaitsForDisplay(w) /\ DisplayWaitsForMutex
            /\ EventThreadWaitsForDisplay)

----------------------------------------------------------------------------
(* Properties of SettingsPanel *)

\* C35 as stated: at any time at most one delayed settings notification is pending
C35_OneDelayedNotificationPending == Cardinality(gui.timers) <= 1

----------------------------------------------------------------------------
(* Properties of the typo substitute *)

\* C36: whenever a session takes the typo path, no neighbour list of the table
\* holds its own letter, get_typo_char(c) does not return c for any character c,
\* and the substitute the session is about to inject differs from the character
\* the text holds; until Backspace is pressed the text produced ends with that
\* substitute
C36_TypoDiffersFromIntended ==
    \A w \in Workers :
       /\ threads[w].pc = "type_typo"
             => /\ \A c \in DOMAIN ADJACENT_KEYS : c \notin Range(ADJACENT_KEYS[c])
                /\ \A c \in TypoChars : c \notin get_typo_char(c)
                /\ threads[w].typo # CurChar(w)
       /\ threads[w].pc = "sleep_typo"
             => threads[w].last = Event("type", threads[w].typo)
       /\ threads[w].pc \in {"sleep_typo", "press_backspace"}
             => /\ threads[w].typo # CurChar(w)
                /\ threads[w].net = Append(SubSeq(threads[w].text, 1,
                                                  threads[w].i - 1),
                                           threads[w].typo)

\* a session has typed a substitute for the upper-case letter of its text and is
\* about to press Backspace
C36_Witness ==
    \E w \in Workers :
       /\ threads[w].pc = "press_backspace"
       /\ CurChar(w) = "Z"
       /\ threads[w].typo = "A"
       /\ threads[w].net = <<"A">>

====
